---- MODULE Spec2Model ----
(***************************************************************************)
(* borgini: the configuration translation and command assembly pipeline.   *)
(*                                                                         *)
(* A Python str is modelled as a sequence of one-character strings, so     *)
(* that lower(), startswith(), strip(), split() and f-string formatting    *)
(* are computed and not assumed.  A Python dict is modelled as a sequence  *)
(* of items [k, v] with unique keys: it keeps the insertion order, which   *)
(* the rendering of flags depends on.                                      *)
(***************************************************************************)
EXTENDS Integers, Sequences, FiniteSets, TLC

(* ------------------------------------------------------------------ *)
(* Python str                                                          *)
(* ------------------------------------------------------------------ *)

ascii_uppercase ==
    <<"A", "B", "C", "D", "E", "F", "G", "H", "I", "J", "K", "L", "M",
      "N", "O", "P", "Q", "R", "S", "T", "U", "V", "W", "X", "Y", "Z">>

ascii_lowercase ==
    <<"a", "b", "c", "d", "e", "f", "g", "h", "i", "j", "k", "l", "m",
      "n", "o", "p", "q", "r", "s", "t", "u", "v", "w", "x", "y", "z">>

\* the lower case letter of every upper case letter
to_lower ==
    [c \in {ascii_uppercase[i] : i \in DOMAIN ascii_uppercase} |->
        ascii_lowercase[CHOOSE i \in DOMAIN ascii_uppercase :
                            ascii_uppercase[i] = c]]

lower_char(c) == IF c \in DOMAIN to_lower THEN to_lower[c] ELSE c

\* str.lower()
lower(s) == [i \in 1..Len(s) |-> lower_char(s[i])]

\* str.startswith(prefix)
startswith(s, prefix) ==
    /\ Len(s) >= Len(prefix)
    /\ SubSeq(s, 1, Len(prefix)) = prefix

whitespace == {" ", "\t", "\n", "\r"}

RECURSIVE lstrip(_)
lstrip(s) ==
    IF s # <<>> /\ Head(s) \in whitespace THEN lstrip(Tail(s)) ELSE s

RECURSIVE rstrip(_)
rstrip(s) ==
    IF s # <<>> /\ s[Len(s)] \in whitespace
    THEN rstrip(SubSeq(s, 1, Len(s) - 1))
    ELSE s

\* str.strip()
strip(s) == lstrip(rstrip(s))

(* ------------------------------------------------------------------ *)
(* Python values: bool, str and None, tagged so that they can be       *)
(* compared                                                            *)
(* ------------------------------------------------------------------ *)

Bool(b) == [t |-> "bool", b |-> b, s |-> <<>>]

Str(s) == [t |-> "str", b |-> FALSE, s |-> s]

None == [t |-> "none", b |-> FALSE, s |-> <<>>]

\* str(value), also what an f-string does with a value
str(v) ==
    CASE v.t = "bool" -> IF v.b THEN <<"T", "r", "u", "e">>
                                ELSE <<"F", "a", "l", "s", "e">>
      [] v.t = "none" -> <<"N", "o", "n", "e">>
      [] OTHER -> v.s

\* the truth value of a Python value: `if value`, `not value`
truthy(v) ==
    CASE v.t = "bool" -> v.b
      [] v.t = "none" -> FALSE
      [] OTHER -> v.s # <<>>

(* ------------------------------------------------------------------ *)
(* Python dict, in insertion order                                     *)
(* ------------------------------------------------------------------ *)

Item(k, v) == [k |-> k, v |-> v]

DictHas(d, k) == \E i \in 1..Len(d) : d[i].k = k

DictIndex(d, k) == CHOOSE i \in 1..Len(d) : d[i].k = k

DictGet(d, k) == d[DictIndex(d, k)].v

\* d[k] = v: an existing key keeps its place, a new key goes last
DictSet(d, k, v) ==
    IF DictHas(d, k)
    THEN [d EXCEPT ![DictIndex(d, k)] = Item(k, v)]
    ELSE Append(d, Item(k, v))

DictKeys(d) == [i \in 1..Len(d) |-> d[i].k]

\* TRUE.  TLC evaluates the arguments of an operator when they are used: a
\* loop tests this of the value one pass leaves before it starts the next
\* pass, so that the passes are evaluated one after the other and not
\* nested in each other.
evaluated(v) == v = v

(* ------------------------------------------------------------------ *)
(* configparser.ConfigParser(interpolation=None), as far as config.py  *)
(* uses it: the options of the default section and of each section,    *)
(* every value a str                                                   *)
(* ------------------------------------------------------------------ *)

NONE == <<"N", "o", "n", "e">>

DEFAULT == "DEFAULT"

ConfigParser == [defaults |-> <<>>, sections |-> <<>>]

optionxform(key) == lower(key)

has_section(parser, section) == DictHas(parser.sections, section)

add_section(parser, section) ==
    [parser EXCEPT !.sections = DictSet(@, section, <<>>)]

\* parser.set(section, option, value)
parser_set(parser, section, key, value) ==
    IF section = DEFAULT
    THEN [parser EXCEPT !.defaults = DictSet(@, optionxform(key), value)]
    ELSE [parser EXCEPT !.sections =
            DictSet(@, section,
                    DictSet(DictGet(parser.sections, section),
                            optionxform(key), value))]

\* dict(parser[section]): the section's own options, then the options it
\* inherits from the default section
SectionProxy(parser, section) ==
    IF section = DEFAULT
    THEN parser.defaults
    ELSE LET own == DictGet(parser.sections, section)
         IN  own \o SelectSeq(parser.defaults, LAMBDA it : ~DictHas(own, it.k))

\* key in parser[section]
has_option(parser, section, key) ==
    IF section = DEFAULT
    THEN DictHas(parser.defaults, optionxform(key))
    ELSE /\ has_section(parser, section)
         /\ DictHas(SectionProxy(parser, section), optionxform(key))

\* parser[section][key]
parser_get(parser, section, key) ==
    DictGet(SectionProxy(parser, section), optionxform(key))

RECURSIVE read_dict_section(_, _, _, _)
read_dict_section(parser, section, items, i) ==
    IF i > Len(items)
    THEN parser
    ELSE LET next == parser_set(parser, section, items[i].k, str(items[i].v))
         IN  IF evaluated(next)
             THEN read_dict_section(next, section, items, i + 1)
             ELSE next

\* parser.read_dict(dictionary)
RECURSIVE read_dict(_, _, _)
read_dict(parser, dictionary, i) ==
    IF i > Len(dictionary)
    THEN parser
    ELSE LET section == dictionary[i].k
             added == IF section = DEFAULT \/ has_section(parser, section)
                      THEN parser
                      ELSE add_section(parser, section)
             next == read_dict_section(added, section, dictionary[i].v, 1)
         IN  IF evaluated(next)
             THEN read_dict(next, dictionary, i + 1)
             ELSE next

(* The lines of a config file.  An option line keeps the key as it is     *)
(* spelled, the delimiter and the value; a header line names a section.   *)

SecLine(name) ==
    [t |-> "sec", name |-> name, key |-> <<>>, delim |-> "", val |-> <<>>]

OptLine(key, delim, val) ==
    [t |-> "opt", name |-> "", key |-> key, delim |-> delim, val |-> val]

BlankLine ==
    [t |-> "blank", name |-> "", key |-> <<>>, delim |-> "", val |-> <<>>]

NoFile == [exists |-> FALSE, lines |-> <<>>]

File(lines) == [exists |-> TRUE, lines |-> lines]

\* What reading a file gives: the parser, or a configparser.Error
\* (MissingSectionHeaderError, DuplicateSectionError, DuplicateOptionError)
ParsingError == [ok |-> FALSE, parser |-> ConfigParser]

RECURSIVE read_lines(_, _, _, _, _)
read_lines(parser, lines, i, cursect, added) ==
    IF i > Len(lines)
    THEN [ok |-> TRUE, parser |-> parser]
    ELSE LET line == lines[i] IN
         CASE line.t = "blank" ->
                read_lines(parser, lines, i + 1, cursect, added)
           [] line.t = "sec" ->
                IF has_section(parser, line.name)
                THEN ParsingError
                ELSE IF line.name = DEFAULT
                THEN read_lines(parser, lines, i + 1, DEFAULT, added)
                ELSE read_lines(add_section(parser, line.name), lines, i + 1,
                                line.name, added)
           [] OTHER ->
                LET optname == optionxform(rstrip(line.key)) IN
                IF cursect = "" \/ <<cursect, optname>> \in added
                THEN ParsingError
                ELSE LET next == parser_set(parser, cursect, optname,
                                            strip(line.val))
                     IN  IF evaluated(next)
                         THEN read_lines(next, lines, i + 1, cursect,
                                         added \cup {<<cursect, optname>>})
                         ELSE ParsingError

\* ConfigParser().read(path): a missing file reads as nothing
parser_read(file) ==
    IF file.exists
    THEN read_lines(ConfigParser, file.lines, 1, "", {})
    ELSE [ok |-> TRUE, parser |-> ConfigParser]

write_section(name, items) ==
    <<SecLine(name)>>
    \o [i \in 1..Len(items) |-> OptLine(items[i].k, " = ", items[i].v)]
    \o <<BlankLine>>

RECURSIVE write_sections(_, _)
write_sections(sections, i) ==
    IF i > Len(sections)
    THEN <<>>
    ELSE write_section(sections[i].k, sections[i].v)
         \o write_sections(sections, i + 1)

\* parser.write(file): the default section first, when it has options
parser_write(parser) ==
    (IF parser.defaults # <<>>
     THEN write_section(DEFAULT, parser.defaults)
     ELSE <<>>)
    \o write_sections(parser.sections, 1)

(* ------------------------------------------------------------------ *)
(* config.py: RawConfig                                                *)
(* ------------------------------------------------------------------ *)

\* socket.gethostname() and getpass.getuser(): the identity of the host
hostname == <<"H", "O", "S", "T">>

user == <<"U", "S", "E", "R">>

txt_reponame == <<"r", "e", "p", "o", "n", "a", "m", "e">>

txt_repopath == <<"r", "e", "p", "o", "p", "a", "t", "h">>

txt_timestamp == <<"t", "i", "m", "e", "s", "t", "a", "m", "p">>

txt_ssh == <<"s", "s", "h">>

txt_prune == <<"p", "r", "u", "n", "e">>

txt_remoteuser == <<"r", "e", "m", "o", "t", "e", "u", "s", "e", "r">>

txt_remotehost == <<"r", "e", "m", "o", "t", "e", "h", "o", "s", "t">>

txt_port == <<"p", "o", "r", "t">>

txt_verbose == <<"v", "e", "r", "b", "o", "s", "e">>

txt_stats == <<"s", "t", "a", "t", "s">>

txt_list == <<"l", "i", "s", "t">>

txt_show_rc == <<"s", "h", "o", "w", "-", "r", "c">>

txt_exclude_caches ==
    <<"e", "x", "c", "l", "u", "d", "e", "-", "c", "a", "c", "h", "e", "s">>

txt_filter == <<"f", "i", "l", "t", "e", "r">>

txt_compression == <<"c", "o", "m", "p", "r", "e", "s", "s", "i", "o", "n">>

txt_keep_daily == <<"k", "e", "e", "p", "-", "d", "a", "i", "l", "y">>

txt_keep_weekly == <<"k", "e", "e", "p", "-", "w", "e", "e", "k", "l", "y">>

txt_keep_monthly ==
    <<"k", "e", "e", "p", "-", "m", "o", "n", "t", "h", "l", "y">>

txt_keyfile == <<"k", "e", "y", "f", "i", "l", "e">>

\* the dictionary _load_default_values passes to read_dict
default_values ==
    << Item(DEFAULT,
            << Item(txt_reponame, Str(hostname)),
               Item(txt_repopath, Str(NONE)),
               Item(txt_timestamp,
                    Str(<<"%", "Y", "-", "%", "m", "-", "%", "d", "T",
                          "%", "H", ":", "%", "M", ":", "%", "S">>)),
               Item(txt_ssh, Bool(TRUE)),
               Item(txt_prune, Bool(TRUE)) >>),
       Item("SSH",
            << Item(txt_remoteuser, Str(user)),
               Item(txt_remotehost, Str(hostname)),
               Item(txt_port, Str(<<"2", "2">>)) >>),
       Item("BACKUP",
            << Item(txt_verbose, Bool(TRUE)),
               Item(txt_stats, Bool(TRUE)),
               Item(txt_list, Bool(TRUE)),
               Item(txt_show_rc, Bool(TRUE)),
               Item(txt_exclude_caches, Bool(TRUE)),
               Item(txt_filter, Str(<<"A", "M", "E">>)),
               Item(txt_compression, Str(<<"l", "z", "4">>)) >>),
       Item("PRUNE",
            << Item(txt_verbose, Bool(FALSE)),
               Item(txt_stats, Bool(TRUE)),
               Item(txt_list, Bool(TRUE)),
               Item(txt_show_rc, Bool(TRUE)),
               Item(txt_keep_daily, Str(<<"7">>)),
               Item(txt_keep_weekly, Str(<<"4">>)),
               Item(txt_keep_monthly, Str(<<"6">>)) >>),
       Item("ENVIRONMENT",
            << Item(txt_keyfile, Str(NONE)) >>) >>

\* RawConfig.__init__: self.parser
RawConfig_parser == ConfigParser

\* a RawConfig.read that does not call _load_default_values
load_no_default_values == RawConfig_parser

\* RawConfig._load_default_values, on the parser of a new RawConfig
load_default_values == read_dict(RawConfig_parser, default_values, 1)

\* RawConfig.write_values: the file is overwritten with the parser's content
write_values(parser) == File(parser_write(parser))

\* a loop body that copies the keys of the default section only
read_copy_default_only(parser, reader, section, key) ==
    IF section = DEFAULT
    THEN parser_set(parser, section, key, parser_get(reader, section, key))
    ELSE parser

\* an inner loop body that adds the section the parser does not have,
\* as self.parser.setdefault(section, {})[key] = ... would
read_copy_any_section(parser, reader, section, key) ==
    IF section = DEFAULT
       \/ (section # DEFAULT /\ ~has_option(reader, DEFAULT, key))
    THEN parser_set(IF section = DEFAULT \/ has_section(parser, section)
                    THEN parser
                    ELSE add_section(parser, section),
                    section, key, parser_get(reader, section, key))
    ELSE parser

\* the body of the inner loop of RawConfig.read, for one key of one section
read_copy(parser, reader, section, key) ==
    IF section = DEFAULT
       \/ (section # DEFAULT /\ ~has_option(reader, DEFAULT, key))
    THEN IF section = DEFAULT \/ has_section(parser, section)
         THEN parser_set(parser, section, key,
                         parser_get(reader, section, key))
         ELSE parser     \* except KeyError: pass
    ELSE parser

RECURSIVE read_section(_, _, _, _, _)
read_section(parser, reader, section, keys, i) ==
    IF i > Len(keys)
    THEN parser
    ELSE LET next == read_copy(parser, reader, section, keys[i])
         IN  IF evaluated(next)
             THEN read_section(next, reader, section, keys, i + 1)
             ELSE next

RECURSIVE read_sections(_, _, _, _)
read_sections(parser, reader, sections, i) ==
    IF i > Len(sections)
    THEN parser
    ELSE LET next == read_section(parser, reader, sections[i],
                                  DictKeys(SectionProxy(reader, sections[i])), 1)
         IN  IF evaluated(next)
             THEN read_sections(next, reader, sections, i + 1)
             ELSE next

\* RawConfig.read up to its write: the defaults, overlaid with the file.
\* `for section in reader` starts with the default section.
read_reconcile(reader) ==
    read_sections(load_default_values, reader,
                  <<DEFAULT>> \o DictKeys(reader.sections), 1)

\* RawConfig.read on a new RawConfig: the parser it leaves and the file it
\* writes; a file that configparser cannot parse raises before anything
\* is written
RawConfig_read(file) ==
    LET reader == parser_read(file) IN
    IF reader.ok
    THEN LET parser == read_reconcile(reader.parser)
         IN  [ok |-> TRUE, reader |-> reader.parser, parser |-> parser,
              file |-> write_values(parser)]
    ELSE [ok |-> FALSE, reader |-> ConfigParser,
          parser |-> load_default_values, file |-> file]

(* ------------------------------------------------------------------ *)
(* config.py: Proxy                                                    *)
(* ------------------------------------------------------------------ *)

section_list(parser) == DictKeys(parser.sections) \o <<DEFAULT>>

\* a _filter_default that keeps the keys a section inherits
filter_default_inherited(parser, section) == SectionProxy(parser, section)

filter_default(parser, section) ==
    IF section = DEFAULT
    THEN SectionProxy(parser, section)
    ELSE SelectSeq(SectionProxy(parser, section),
                   LAMBDA it : ~DictHas(SectionProxy(parser, DEFAULT), it.k))

raw_dict(parser) ==
    LET sections == section_list(parser)
    IN  [i \in 1..Len(sections) |->
            Item(sections[i], filter_default(parser, sections[i]))]

\* a _convert_null that keeps every key
convert_null_skipped(obj) == obj

\* a _convert_null that compares v.lower() != NONE.lower()
convert_null_any_case(obj) ==
    [i \in 1..Len(obj) |->
        Item(obj[i].k,
             SelectSeq(obj[i].v, LAMBDA it : lower(it.v) # lower(NONE)))]

\* Proxy._convert_null
convert_null(obj) ==
    [i \in 1..Len(obj) |->
        Item(obj[i].k, SelectSeq(obj[i].v, LAMBDA it : it.v # NONE))]

\* configparser.ConfigParser.BOOLEAN_STATES
BOOLEAN_STATES_true ==
    { <<"1">>, <<"y", "e", "s">>, <<"t", "r", "u", "e">>, <<"o", "n">> }

BOOLEAN_STATES_false ==
    { <<"0">>, <<"n", "o">>, <<"f", "a", "l", "s", "e">>, <<"o", "f", "f">> }

\* a _get_boolean that does not raise ValueError for a keep- key
get_boolean_keep_converted(parser, section, key) ==
    LET fallback == Str(DictGet(filter_default(parser, section), key))
        value == lower(parser_get(parser, section, key))
    IN  IF value \in BOOLEAN_STATES_true THEN Bool(TRUE)
        ELSE IF value \in BOOLEAN_STATES_false THEN Bool(FALSE)
        ELSE fallback

\* a _get_boolean that tests the value against "True" and "False" as
\* _load_default_values writes them
get_boolean_case_sensitive(parser, section, key) ==
    LET fallback == Str(DictGet(filter_default(parser, section), key))
        value == parser_get(parser, section, key)
    IN  IF startswith(key, <<"k", "e", "e", "p", "-">>)
        THEN fallback
        ELSE IF value = <<"T", "r", "u", "e">> THEN Bool(TRUE)
        ELSE IF value = <<"F", "a", "l", "s", "e">> THEN Bool(FALSE)
        ELSE fallback

\* Proxy._get_boolean: getboolean raises ValueError for a value that is
\* not in BOOLEAN_STATES
get_boolean(parser, section, key) ==
    LET fallback == Str(DictGet(filter_default(parser, section), key))
        value == lower(parser_get(parser, section, key))
    IN  IF startswith(key, <<"k", "e", "e", "p", "-">>)
        THEN fallback
        ELSE IF value \in BOOLEAN_STATES_true THEN Bool(TRUE)
        ELSE IF value \in BOOLEAN_STATES_false THEN Bool(FALSE)
        ELSE fallback

convert_booleans(parser, obj) ==
    [i \in 1..Len(obj) |->
        Item(obj[i].k,
             [j \in 1..Len(obj[i].v) |->
                 Item(obj[i].v[j].k,
                      get_boolean(parser, obj[i].k, obj[i].v[j].k))])]

\* a _filter_null that keeps the sections that have no key left
filter_null_keeps_empty(obj) == obj

filter_null(obj) == SelectSeq(obj, LAMBDA it : it.v # <<>>)

convert_proxy(parser) ==
    filter_null(convert_booleans(parser, convert_null(raw_dict(parser))))

(* ------------------------------------------------------------------ *)
(* config.py: Config, on its dict                                      *)
(* ------------------------------------------------------------------ *)

\* a get_key that returns the null marker where the key is missing
get_key_null_marker(dict, section, key) ==
    IF DictHas(dict, section) /\ DictHas(DictGet(dict, section), key)
    THEN DictGet(DictGet(dict, section), key)
    ELSE Str(NONE)

\* Config.get_key
get_key(dict, section, key) ==
    IF DictHas(dict, section) /\ DictHas(DictGet(dict, section), key)
    THEN DictGet(DictGet(dict, section), key)
    ELSE None     \* except KeyError: return None

\* a get_keytuple that takes the sections from the last to the first
RECURSIVE get_keytuple_reversed(_, _, _)
get_keytuple_reversed(dict, kwargs, i) ==
    IF i > Len(kwargs)
    THEN <<>>
    ELSE get_keytuple_reversed(dict, kwargs, i + 1)
         \o [j \in 1..Len(kwargs[i].v) |->
                get_key(dict, kwargs[i].k, kwargs[i].v[j])]

\* Config.get_keytuple(**kwargs)
RECURSIVE get_keytuple(_, _, _)
get_keytuple(dict, kwargs, i) ==
    IF i > Len(kwargs)
    THEN <<>>
    ELSE [j \in 1..Len(kwargs[i].v) |->
             get_key(dict, kwargs[i].k, kwargs[i].v[j])]
         \o get_keytuple(dict, kwargs, i + 1)

get_flags(obj) ==
    LET flags == SelectSeq(obj, LAMBDA it : it.v.t = "bool" /\ it.v.b)
    IN  [i \in 1..Len(flags) |-> <<"-", "-">> \o flags[i].k]

\* a get_keyvals that joins the key and the value with "="
get_keyvals_equals(obj) ==
    LET keyvals == SelectSeq(obj, LAMBDA it : it.v.t = "str")
    IN  [i \in 1..Len(keyvals) |->
            <<"-", "-">> \o keyvals[i].k \o <<"=">> \o keyvals[i].v.s]

get_keyvals(obj) ==
    LET keyvals == SelectSeq(obj, LAMBDA it : it.v.t = "str")
    IN  [i \in 1..Len(keyvals) |->
            <<"-", "-">> \o keyvals[i].k \o <<" ">> \o keyvals[i].v.s]

\* a return_all that extends the key-value tokens with the flags
return_all_keyvals_first(dict, section) ==
    IF DictHas(dict, section)
    THEN [ok |-> TRUE,
          args |-> get_keyvals(DictGet(dict, section))
                   \o get_flags(DictGet(dict, section))]
    ELSE [ok |-> FALSE, args |-> <<>>]

\* Config.return_all: self.dict[section] raises KeyError for a section that
\* is not in the dict
return_all(dict, section) ==
    IF DictHas(dict, section)
    THEN [ok |-> TRUE,
          args |-> get_flags(DictGet(dict, section))
                   \o get_keyvals(DictGet(dict, section))]
    ELSE [ok |-> FALSE, args |-> <<>>]

(* ------------------------------------------------------------------ *)
(* funcs.py                                                            *)
(* ------------------------------------------------------------------ *)

\* the starter templates of initialize_datafiles, as initialize_data_files
\* writes them: every entry followed by a newline
include_pathlist ==
    <<"#", " ", "-", "-", "-", " ", "i", "n", "c", "l", "u", "d", "e", " ",
      "-", "-", "-", "\n", "#", " ", "T", "h", "i", "s", " ", "i", "s", " ",
      "a", "n", " ", "a", "u", "t", "o", "-", "g", "e", "n", "e", "r", "a",
      "t", "e", "d", " ", "l", "i", "s", "t", " ", "w", "h", "i", "c", "h",
      " ", "s", "h", "o", "u", "l", "d", " ", "s", "u", "i", "t", "e", " ",
      "m", "o", "s", "t", " ", "u", "s", "e", "r", "s", "\n", "#", " ", "R",
      "e", "m", "o", "v", "e", " ", "a", "n", "y", " ", "e", "n", "t", "r",
      "i", "e", "s", " ", "y", "o", "u", " ", "d", "o", " ", "n", "o", "t",
      " ", "w", "a", "n", "t", " ", "t", "o", " ", "i", "n", "c", "l", "u",
      "d", "e", " ", "a", "n", "d", " ", "a", "d", "d", " ", "a", "n", "y",
      " ", "t", "h", "a", "t", " ", "y", "o", "u", " ", "d", "o", "\n", "#",
      "\n", "#", " ", ".", " ", "e", "n", "s", "u", "r", "e", " ", "y", "o",
      "u", " ", "a", "l", "w", "a", "y", "s", " ", "u", "s", "e", " ", "t",
      "h", "e", " ", "a", "b", "s", "o", "l", "u", "t", "e", " ", "p", "a",
      "t", "h", " ", "f", "o", "r", " ", "d", "i", "r", "e", "c", "t", "o",
      "r", "i", "e", "s", " ", "a", "n", "d", " ", "f", "i", "l", "e", "s",
      "\n", "#", " ", ".", " ", "l", "i", "n", "e", " ", "a", "n", "d", " ",
      "i", "n", "l", "i", "n", "e", " ", "c", "o", "m", "m", "e", "n", "t",
      "s", " ", "w", "i", "t", "h", " ", "`", "#", "'", " ", "a", "r", "e",
      " ", "s", "u", "p", "p", "o", "r", "t", "e", "d", "\n", "#", "\n",
      "/", "h", "o", "m", "e", "\n", "/", "r", "o", "o", "t", "\n", "/",
      "v", "a", "r", "\n", "/", "u", "s", "r", "/", "l", "o", "c", "a", "l",
      "\n", "/", "s", "r", "v", "\n">>

exclude_pathlist ==
    <<"#", " ", "-", "-", "-", " ", "e", "x", "c", "l", "u", "d", "e", " ",
      "-", "-", "-", "\n", "#", " ", "T", "h", "i", "s", " ", "i", "s", " ",
      "a", "n", " ", "a", "u", "t", "o", "-", "g", "e", "n", "e", "r", "a",
      "t", "e", "d", " ", "l", "i", "s", "t", " ", "w", "h", "i", "c", "h",
      " ", "s", "h", "o", "u", "l", "d", " ", "s", "u", "i", "t", "e", " ",
      "m", "o", "s", "t", " ", "u", "s", "e", "r", "s", "\n", "#", " ", "R",
      "e", "m", "o", "v", "e", " ", "a", "n", "y", " ", "e", "n", "t", "r",
      "i", "e", "s", " ", "y", "o", "u", " ", "d", "o", " ", "n", "o", "t",
      " ", "w", "a", "n", "t", " ", "t", "o", " ", "e", "x", "c", "l", "u",
      "d", "e", " ", "a", "n", "d", " ", "a", "d", "d", " ", "a", "n", "y",
      " ", "t", "h", "a", "t", " ", "y", "o", "u", " ", "d", "o", "\n", "#",
      "\n", "#", " ", ".", " ", "e", "n", "s", "u", "r", "e", " ", "y", "o",
      "u", " ", "a", "l", "w", "a", "y", "s", " ", "u", "s", "e", " ", "t",
      "h", "e", " ", "a", "b", "s", "o", "l", "u", "t", "e", " ", "p", "a",
      "t", "h", " ", "f", "o", "r", " ", "d", "i", "r", "e", "c", "t", "o",
      "r", "i", "e", "s", " ", "a", "n", "d", " ", "f", "i", "l", "e", "s",
      "\n", "#", " ", ".", " ", "l", "i", "n", "e", " ", "a", "n", "d", " ",
      "i", "n", "l", "i", "n", "e", " ", "c", "o", "m", "m", "e", "n", "t",
      "s", " ", "w", "i", "t", "h", " ", "`", "#", "'", " ", "a", "r", "e",
      " ", "s", "u", "p", "p", "o", "r", "t", "e", "d", "\n", "#", "\n",
      "/", "h", "o", "m", "e", "/", "*", "/", ".", "c", "a", "c", "h", "e",
      "/", "*", "\n", "/", "v", "a", "r", "/", "c", "a", "c", "h", "e", "/",
      "*", "\n", "/", "v", "a", "r", "/", "t", "m", "p", "/", "*", "\n",
      "/", "v", "a", "r", "/", "r", "u", "n", "\n">>

\* a get_path that returns the ssh path whatever ssh is
get_path_always_ssh(borguser, host, port, repopath, ssh) ==
    Str(<<"s", "s", "h", ":", "/", "/">> \o str(borguser) \o <<"@">>
        \o str(host) \o <<":">> \o str(port) \o str(repopath))

get_path(borguser, host, port, repopath, ssh) ==
    IF truthy(ssh)
    THEN Str(<<"s", "s", "h", ":", "/", "/">> \o str(borguser) \o <<"@">>
             \o str(host) \o <<":">> \o str(port) \o str(repopath))
    ELSE repopath

(* ------------------------------------------------------------------ *)
(* _core.py: Data                                                      *)
(* ------------------------------------------------------------------ *)

NoText == [exists |-> FALSE, text |-> <<>>]

Text(text) == [exists |-> TRUE, text |-> text]

\* str.splitlines(), for the line ends \n, \r and \r\n
RECURSIVE splitlines(_)
splitlines(s) ==
    IF s = <<>>
    THEN <<>>
    ELSE IF \E i \in 1..Len(s) : s[i] \in {"\n", "\r"}
    THEN LET i == CHOOSE i \in 1..Len(s) :
                      /\ s[i] \in {"\n", "\r"}
                      /\ \A j \in 1..(i - 1) : s[j] \notin {"\n", "\r"}
             end == IF s[i] = "\r" /\ i < Len(s) /\ s[i + 1] = "\n"
                    THEN i + 1
                    ELSE i
         IN  <<SubSeq(s, 1, i - 1)>> \o splitlines(SubSeq(s, end + 1, Len(s)))
    ELSE <<s>>

read_datafile(file) == splitlines(strip(file.text))

\* f.split("#")[0]
split_hash(f) ==
    IF \E i \in 1..Len(f) : f[i] = "#"
    THEN SubSeq(f, 1, (CHOOSE i \in 1..Len(f) :
                           /\ f[i] = "#"
                           /\ \A j \in 1..(i - 1) : f[j] # "#") - 1)
    ELSE f

\* Data._parse_datafile: f[0] raises IndexError on an empty line
parse_datafile(file) ==
    LET files == read_datafile(file)
        kept == SelectSeq(files, LAMBDA f : f[1] # "#")
    IN  IF \E i \in 1..Len(files) : files[i] = <<>>
        THEN [ok |-> FALSE, v |-> <<>>]
        ELSE [ok |-> TRUE,
              v |-> [i \in 1..Len(kept) |->
                        <<"'">> \o strip(split_hash(kept[i])) \o <<"'">>]]

\* a _get_files that does not test os.path.isfile(path): open raises
get_files_unchecked(file) ==
    IF file.exists THEN parse_datafile(file) ELSE [ok |-> FALSE, v |-> <<>>]

\* Data._get_files
get_files(file) ==
    IF file.exists THEN parse_datafile(file) ELSE [ok |-> TRUE, v |-> <<>>]

get_include(file) == get_files(file)

\* a _format_exclude that gives one flag for all the paths
format_exclude_one_flag(pathlist) ==
    IF pathlist = <<>>
    THEN <<>>
    ELSE <<<<"-", "-", "e", "x", "c", "l", "u", "d", "e">>>> \o pathlist

\* Data._format_exclude
format_exclude(pathlist) ==
    [i \in 1..Len(pathlist) |->
        <<"-", "-", "e", "x", "c", "l", "u", "d", "e", " ">> \o pathlist[i]]

get_exclude(file) ==
    LET exclude_list == get_files(file)
    IN  [ok |-> exclude_list.ok, v |-> format_exclude(exclude_list.v)]

\* Data.initialize_data_files, for one data file
initialize_data_file(file, pathlist) ==
    IF file.exists THEN file ELSE Text(pathlist)

(* ------------------------------------------------------------------ *)
(* _core.py: BorgBackup                                                *)
(* ------------------------------------------------------------------ *)

\* datetime.datetime.now(): the fields of the moments a run may see
Moment(second) ==
    [c \in {"Y", "m", "d", "H", "M", "S"} |->
        CASE c = "Y" -> <<"2", "0", "2", "1">>
          [] c = "m" -> <<"0", "2">>
          [] c = "d" -> <<"0", "7">>
          [] c = "H" -> <<"1", "6">>
          [] c = "M" -> <<"1", "2">>
          [] OTHER -> second]

Moments == { Moment(<<"5", "8">>), Moment(<<"5", "9">>) }

\* now.strftime(format), for the directives %Y %m %d %H %M %S
RECURSIVE strftime(_, _)
strftime(now, format) ==
    IF format = <<>>
    THEN <<>>
    ELSE IF format[1] = "%" /\ Len(format) >= 2 /\ format[2] \in DOMAIN now
    THEN now[format[2]] \o strftime(now, SubSeq(format, 3, Len(format)))
    ELSE <<format[1]>> \o strftime(now, Tail(format))

\* shutil.which("borg"): the path of the borg binary, or None
Which == { None, Str(<<"/", "b", "i", "n", "/", "b", "o", "r", "g">>) }

NoBorg ==
    [repo |-> <<>>, bin |-> None, dry |-> FALSE, date |-> <<>>,
     archive |-> <<>>]

\* a BorgBackup whose dry is the --dry argument whether or not borg is
\* installed
BorgBackup_dry_as_asked(repopath, dry_arg, args, which, now) ==
    IF args[2].t # "str"
    THEN [ok |-> FALSE, borg |-> NoBorg]
    ELSE LET repo == str(repopath) \o <<"/">> \o str(args[1])
             date == strftime(now, args[2].s)
         IN  [ok |-> TRUE,
              borg |-> [repo |-> repo,
                        bin |-> which,
                        dry |-> dry_arg,
                        date |-> date,
                        archive |-> repo \o <<":", ":">> \o str(args[1])
                                    \o <<"-">> \o date]]

\* BorgBackup.__init__(repopath, pygments, dry, *args); strftime raises
\* TypeError when the format is not a str
BorgBackup(repopath, dry_arg, args, which, now) ==
    IF args[2].t # "str"
    THEN [ok |-> FALSE, borg |-> NoBorg]
    ELSE LET repo == str(repopath) \o <<"/">> \o str(args[1])
             date == strftime(now, args[2].s)
         IN  [ok |-> TRUE,
              borg |-> [repo |-> repo,
                        bin |-> which,
                        dry |-> IF truthy(which) THEN dry_arg ELSE TRUE,
                        date |-> date,
                        archive |-> repo \o <<":", ":">> \o str(args[1])
                                    \o <<"-">> \o date]]

\* the loop of BorgBackup._separate_keep: every token of the copy that
\* starts with --keep- is popped from args, at its first index, into keep
RECURSIVE separate_keep_loop(_, _, _, _)
separate_keep_loop(copy, i, args, keep) ==
    IF i > Len(copy)
    THEN <<args, keep>>
    ELSE IF startswith(copy[i], <<"-", "-", "k", "e", "e", "p", "-">>)
    THEN LET index == CHOOSE n \in 1..Len(args) :
                          /\ args[n] = copy[i]
                          /\ \A m \in 1..(n - 1) : args[m] # copy[i]
             popped == SubSeq(args, 1, index - 1)
                       \o SubSeq(args, index + 1, Len(args))
         IN  IF evaluated(popped)
             THEN separate_keep_loop(copy, i + 1, popped,
                                     Append(keep, args[index]))
             ELSE <<args, keep>>
    ELSE separate_keep_loop(copy, i + 1, args, keep)

\* a _separate_keep that pops nothing
separate_keep_nothing(args) == <<args, <<>>>>

\* BorgBackup._separate_keep
separate_keep(args) == separate_keep_loop(args, 1, args, <<>>)

\* " ".join(strings)
RECURSIVE join_space(_)
join_space(strings) ==
    IF strings = <<>>
    THEN <<>>
    ELSE IF Len(strings) = 1
    THEN strings[1]
    ELSE strings[1] \o <<" ">> \o join_space(Tail(strings))

\* BorgBackup._dry_mode: the string handed to pygments.print
dry_mode(borg, args) ==
    LET borgargs == join_space([i \in 1..Len(args) |->
                                    <<" ">> \o args[i] \o <<"\n">>])
        bin == IF truthy(borg.bin) THEN str(borg.bin) ELSE <<"b", "o", "r", "g">>
    IN  <<"\n">> \o bin \o <<" ">> \o SubSeq(borgargs, 2, Len(borgargs) - 1)

\* BorgBackup._run_borg: the argument list handed to subprocess.call
run_borg(borg, args) == <<str(borg.bin)>> \o args

\* a create that unpacks the include list where the exclude list belongs
create_include_first(borg, args, exclude_args, include_args) ==
    <<<<"c", "r", "e", "a", "t", "e">>>> \o args \o include_args
    \o <<borg.archive>> \o exclude_args

\* the arguments BorgBackup.create hands to BorgBackup.borg
create(borg, args, exclude_args, include_args) ==
    <<<<"c", "r", "e", "a", "t", "e">>>> \o args \o exclude_args
    \o <<borg.archive>> \o include_args

\* the arguments BorgBackup.prune hands to BorgBackup.borg
prune(borg, args) ==
    LET separated == separate_keep(args)
    IN  <<<<"p", "r", "u", "n", "e">>>> \o separated[1] \o <<borg.repo>>
        \o separated[2]

(* ------------------------------------------------------------------ *)
(* The state: the files of the profile, the host, and one run of main  *)
(* ------------------------------------------------------------------ *)

VARIABLES
    config_ini,     \* the profile's config.ini: NoFile or File(lines)
    include,        \* the profile's include list: NoText or Text(text)
    exclude,        \* the profile's exclude list
    keyfile,        \* the file at KEYFILE_PATH
    edits,          \* the number of edits the user has made
    pc,             \* where the run of main is; "idle" between runs
    dry,            \* args.dry
    reader,         \* the reader of RawConfig.read: the file as it was parsed
    parser,         \* raw_config.parser
    config,         \* _config.dict
    environ,        \* os.environ.get("BORG_PASSPHRASE")
    borg,           \* the BorgBackup object
    dispatched,     \* the argument tuples BorgBackup.borg has received
    stdout,         \* what the run has printed
    stderr,         \* what the run has printed to sys.stderr
    calls,          \* the argument lists subprocess.call has received
    exit_status,    \* "" while running; "0", "1" from sys.exit or the
                    \* return of main; else the exception that ended the run
    runs            \* the runs of RawConfig.read that go on at the same time
                    \* on the profile: where each is, its reader, its parser

vars ==
    <<config_ini, include, exclude, keyfile, edits, pc, dry,
      reader, parser, config, environ, borg, dispatched, stdout, stderr, calls,
      exit_status, runs>>

files == <<config_ini, include, exclude, keyfile, edits>>

MaxEdits == 2

KEYFILE_PATH == <<"/", "k">>

dev_null == <<"/", "d", "e", "v", "/", "n", "u", "l", "l">>

\* the option lines a user writes into config.ini with an editor
ConfigEdits ==
    { [sec |-> DEFAULT, key |-> txt_repopath, delim |-> "=", val |-> dev_null],
      [sec |-> DEFAULT, key |-> txt_repopath, delim |-> " = ",
       val |-> <<"n", "o", "n", "e">>],
      [sec |-> DEFAULT, key |-> txt_prune, delim |-> " = ",
       val |-> <<"f", "a", "l", "s", "e">>],
      [sec |-> DEFAULT, key |-> txt_prune, delim |-> " = ",
       val |-> <<"l", "a", "t", "e", "r">>],
      [sec |-> DEFAULT, key |-> txt_port, delim |-> " = ",
       val |-> <<"9", "9">>],
      [sec |-> "SSH", key |-> txt_port, delim |-> " = ", val |-> <<"1">>],
      [sec |-> "BACKUP", key |-> <<"V", "e", "r", "b", "o", "s", "e">>,
       delim |-> ":", val |-> <<"F", "A", "L", "S", "E">>],
      [sec |-> "BACKUP", key |-> txt_stats, delim |-> " = ", val |-> <<"2">>],
      [sec |-> "BACKUP", key |-> txt_ssh, delim |-> " = ", val |-> <<"x">>],
      [sec |-> "BACKUP", key |-> txt_filter, delim |-> " = ", val |-> NONE],
      [sec |-> "PRUNE", key |-> txt_keep_daily, delim |-> " = ",
       val |-> <<"T", "r", "u", "e">>],
      [sec |-> "PRUNE", key |-> txt_stats, delim |-> " = ",
       val |-> <<"t", "R", "U", "E">>],
      [sec |-> "PRUNE", key |-> <<"p", "r", "e", "f", "i", "x">>,
       delim |-> " = ", val |-> <<"x">>],
      [sec |-> "ENVIRONMENT", key |-> txt_keyfile, delim |-> " = ",
       val |-> KEYFILE_PATH],
      [sec |-> "NOT_A_SECTION", key |-> <<"b", "a", "d", "_", "k", "e", "y">>,
       delim |-> " = ", val |-> <<"n", "u", "l", "l">>] }

\* the user gives every key of a section of the schema the same value
whole_section(section, val) ==
    LET items == DictGet(default_values, section)
    IN  [i \in 1..Len(items) |->
            [sec |-> section, key |-> items[i].k, delim |-> " = ",
             val |-> val]]

\* what a user changes in config.ini in one session with an editor: one
\* option line, or the repository path together with ssh = False, with
\* the keyfile, or with every key of BACKUP or of PRUNE
ConfigSessions ==
    { <<e>> : e \in ConfigEdits }
    \cup { << [sec |-> DEFAULT, key |-> txt_repopath, delim |-> " = ",
               val |-> dev_null],
              [sec |-> DEFAULT, key |-> txt_ssh, delim |-> " = ",
               val |-> <<"F", "a", "l", "s", "e">>] >>,
           << [sec |-> DEFAULT, key |-> txt_repopath, delim |-> " = ",
               val |-> dev_null],
              [sec |-> "ENVIRONMENT", key |-> txt_keyfile, delim |-> " = ",
               val |-> KEYFILE_PATH] >> }
    \cup { << [sec |-> DEFAULT, key |-> txt_repopath, delim |-> " = ",
               val |-> dev_null] >> \o whole_section(w[1], w[2]) :
             w \in { <<"BACKUP", NONE>>,
                     <<"BACKUP", <<"F", "a", "l", "s", "e">> >>,
                     <<"PRUNE", NONE>> } }

\* the texts a user writes into the include or the exclude list
ListTexts ==
    { <<"/", "h", "\n", "/", "s", " ", "#", " ", "d", "\n">>,
      <<"#", "c", "\n">>,
      <<"/", "a", "\n", "\n", "/", "b", "\n">> }

\* the line of the section header `sec`, or 0
header_index(lines, sec) ==
    IF \E i \in 1..Len(lines) : lines[i].t = "sec" /\ lines[i].name = sec
    THEN CHOOSE i \in 1..Len(lines) :
             /\ lines[i].t = "sec" /\ lines[i].name = sec
             /\ \A j \in 1..(i - 1) : ~(lines[j].t = "sec" /\ lines[j].name = sec)
    ELSE 0

\* the user sets one option with an editor: the line that spells the option
\* is replaced, else the line is put under the header of its section, else
\* the section is added at the end of the file
set_option(lines, e) ==
    LET h == header_index(lines, e.sec)
        new == OptLine(e.key, e.delim, e.val)
        same == { i \in (h + 1)..Len(lines) :
                    /\ lines[i].t = "opt"
                    /\ optionxform(lines[i].key) = optionxform(e.key)
                    /\ \A j \in (h + 1)..i : lines[j].t # "sec" }
    IN  IF h = 0
        THEN lines \o <<SecLine(e.sec), new>>
        ELSE IF same # {}
        THEN [i \in 1..Len(lines) |-> IF i \in same THEN new ELSE lines[i]]
        ELSE SubSeq(lines, 1, h) \o <<new>> \o SubSeq(lines, h + 1, Len(lines))

\* the user sets the options of a session, one after the other
RECURSIVE set_options(_, _, _)
set_options(lines, session, i) ==
    IF i > Len(session)
    THEN lines
    ELSE set_options(set_option(lines, session[i]), session, i + 1)

\* the processes that run main at the same time on one profile
Procs == {1, 2}

\* a process that is not in RawConfig.read
NoRun == [at |-> "idle", reader |-> ConfigParser, parser |-> ConfigParser]

Init ==
    /\ runs = [p \in Procs |-> NoRun]
    /\ config_ini = NoFile
    /\ include = NoText
    /\ exclude = NoText
    /\ keyfile = NoText
    /\ edits = 0
    /\ pc = "idle"
    /\ dry = FALSE
    /\ reader = ConfigParser
    /\ parser = ConfigParser
    /\ config = <<>>
    /\ environ = None
    /\ borg = NoBorg
    /\ dispatched = <<>>
    /\ stdout = <<>>
    /\ stderr = <<>>
    /\ calls = <<>>
    /\ exit_status = ""

(* ------------------------------------------------------------------ *)
(* The user, between two runs                                          *)
(* ------------------------------------------------------------------ *)

run_vars ==
    <<pc, dry, reader, parser, config, environ, borg, dispatched, stdout, stderr,
      calls, exit_status, runs>>

UserSetOption ==
    /\ pc = "idle" /\ edits < MaxEdits /\ config_ini.exists
    /\ \E session \in ConfigSessions :
           config_ini' = File(set_options(config_ini.lines, session, 1))
    /\ edits' = edits + 1
    /\ UNCHANGED <<include, exclude, keyfile, run_vars>>

\* the user adds the header of a section at the end of config.ini
UserAddSection ==
    /\ pc = "idle" /\ edits < MaxEdits /\ config_ini.exists
    /\ config_ini' = File(config_ini.lines \o <<SecLine("BACKUP")>>)
    /\ edits' = edits + 1
    /\ UNCHANGED <<include, exclude, keyfile, run_vars>>

\* the user empties config.ini
UserTruncateConfig ==
    /\ pc = "idle" /\ edits < MaxEdits /\ config_ini.exists
    /\ config_ini.lines # <<>>
    /\ config_ini' = File(<<>>)
    /\ edits' = edits + 1
    /\ UNCHANGED <<include, exclude, keyfile, run_vars>>

UserRemoveConfig ==
    /\ pc = "idle" /\ edits < MaxEdits /\ config_ini.exists
    /\ config_ini' = NoFile
    /\ edits' = edits + 1
    /\ UNCHANGED <<include, exclude, keyfile, run_vars>>

UserEditInclude ==
    /\ pc = "idle" /\ edits < MaxEdits /\ include.exists
    /\ \E text \in ListTexts : include' = Text(text)
    /\ edits' = edits + 1
    /\ UNCHANGED <<config_ini, exclude, keyfile, run_vars>>

UserEditExclude ==
    /\ pc = "idle" /\ edits < MaxEdits /\ exclude.exists
    /\ \E text \in ListTexts : exclude' = Text(text)
    /\ edits' = edits + 1
    /\ UNCHANGED <<config_ini, include, keyfile, run_vars>>

\* the user removes the include list, the exclude list or both while a run
\* is between initialize_datafiles and the loading of the lists
UserRemoveLists ==
    /\ pc = "create" /\ edits < MaxEdits
    /\ \E removed \in (SUBSET {"include", "exclude"}) \ {{}} :
           /\ include' = IF "include" \in removed THEN NoText ELSE include
           /\ exclude' = IF "exclude" \in removed THEN NoText ELSE exclude
    /\ include.exists /\ exclude.exists
    /\ edits' = edits + 1
    /\ UNCHANGED <<config_ini, keyfile, run_vars>>

UserWriteKeyfile ==
    /\ pc = "idle" /\ edits < MaxEdits /\ ~keyfile.exists
    /\ keyfile' = Text(<<" ", "p", "w", "\n">>)
    /\ edits' = edits + 1
    /\ UNCHANGED <<config_ini, include, exclude, run_vars>>

(* ------------------------------------------------------------------ *)
(* _main.py: main, one action per step that reads or changes the state *)
(* ------------------------------------------------------------------ *)

\* an entry of stdout: the function that printed, and for pygments.print
\* the string it was given
Printed(by, text) == [by |-> by, text |-> text]

\* a step of main raises an exception that nothing catches
Raise(exception) ==
    /\ exit_status' = exception
    /\ pc' = "exit"

\* main up to initialize_config: the arguments are parsed, the starter
\* templates are written for the data files that are missing
Main ==
    /\ pc = "idle"
    /\ dry' \in BOOLEAN
    /\ include' = initialize_data_file(include, include_pathlist)
    /\ exclude' = initialize_data_file(exclude, exclude_pathlist)
    /\ pc' = "initialize_config"
    /\ UNCHANGED <<config_ini, keyfile, edits, runs, reader, parser, config,
                   environ, borg, dispatched, stdout, stderr, calls,
                   exit_status>>

\* an initialize_config that goes on to the next step of main after the
\* first-run notice
InitializeConfigFirstRun_goes_on ==
    /\ pc = "initialize_config"
    /\ ~config_ini.exists
    /\ parser' = load_default_values
    /\ config_ini' = write_values(parser')
    /\ stdout' = Append(stdout, Printed("announce_first_run", <<>>))
    /\ config' = convert_proxy(parser')
    /\ pc' = "set_passphrase"
    /\ UNCHANGED <<include, exclude, keyfile, edits, runs, dry, reader,
                   environ, borg, dispatched, stderr, calls, exit_status>>

\* funcs.initialize_config, no config file: write_new_config, then
\* announce_first_run prints and exits with status 0
InitializeConfigFirstRun ==
    /\ pc = "initialize_config"
    /\ ~config_ini.exists
    /\ parser' = load_default_values
    /\ config_ini' = write_values(parser')
    /\ stdout' = Append(stdout, Printed("announce_first_run", <<>>))
    /\ exit_status' = "0"
    /\ pc' = "exit"
    /\ UNCHANGED <<include, exclude, keyfile, edits, runs, dry, reader, config,
                   environ, borg, dispatched, stderr, calls>>

\* funcs.initialize_config, the config file exists: RawConfig.read, then
\* Config(raw_config).  A file that configparser cannot parse makes
\* reader.read raise a configparser.Error, which nothing catches.
InitializeConfigRead ==
    /\ pc = "initialize_config"
    /\ config_ini.exists
    /\ LET read == RawConfig_read(config_ini) IN
       /\ reader' = read.reader
       /\ parser' = read.parser
       /\ config_ini' = read.file
       /\ IF read.ok
          THEN /\ config' = convert_proxy(read.parser)
               /\ pc' = "set_passphrase"
               /\ UNCHANGED exit_status
          ELSE /\ Raise("configparser.Error")
               /\ UNCHANGED config
    /\ UNCHANGED <<include, exclude, keyfile, edits, runs, dry, environ,
                   borg, dispatched, stdout, stderr, calls>>

\* os.path.isfile(path)
isfile(path) == path.t = "str" /\ path.s = KEYFILE_PATH /\ keyfile.exists

\* a set_passphrase that exports the content of the keyfile as it is
SetPassphrase_untrimmed ==
    /\ pc = "set_passphrase"
    /\ LET path == get_key(config, "ENVIRONMENT", txt_keyfile) IN
       IF truthy(path)
       THEN IF isfile(path)
            THEN /\ environ' = Str(keyfile.text)
                 /\ UNCHANGED stdout
            ELSE /\ stdout' = Append(stdout, Printed("announce_keyfile", <<>>))
                 /\ UNCHANGED environ
       ELSE UNCHANGED <<environ, stdout>>
    /\ pc' = "check_repopath_config"
    /\ UNCHANGED <<files, runs, dry, reader, parser, config, borg, dispatched, stderr, calls,
                   exit_status>>

\* a set_passphrase for which a keyfile that cannot be found is fatal
SetPassphrase_fatal ==
    /\ pc = "set_passphrase"
    /\ LET path == get_key(config, "ENVIRONMENT", txt_keyfile) IN
       IF truthy(path)
       THEN IF isfile(path)
            THEN /\ environ' = Str(strip(keyfile.text))
                 /\ pc' = "check_repopath_config"
                 /\ UNCHANGED <<stdout, exit_status>>
            ELSE /\ stdout' = Append(stdout, Printed("announce_keyfile", <<>>))
                 /\ Raise("1")
                 /\ UNCHANGED environ
       ELSE /\ pc' = "check_repopath_config"
            /\ UNCHANGED <<environ, stdout, exit_status>>
    /\ UNCHANGED <<files, runs, dry, reader, parser, config, borg, dispatched, stderr, calls>>

\* funcs.set_passphrase(_config.get_key("ENVIRONMENT", "keyfile"), catch)
SetPassphrase ==
    /\ pc = "set_passphrase"
    /\ LET path == get_key(config, "ENVIRONMENT", txt_keyfile) IN
       IF truthy(path)
       THEN IF isfile(path)
            THEN /\ environ' = Str(strip(keyfile.text))
                 /\ UNCHANGED stdout
            ELSE /\ stdout' = Append(stdout, Printed("announce_keyfile", <<>>))
                 /\ UNCHANGED environ
       ELSE UNCHANGED <<environ, stdout>>
    /\ pc' = "check_repopath_config"
    /\ UNCHANGED <<files, runs, dry, reader, parser, config, borg, dispatched, stderr, calls,
                   exit_status>>

\* catch.check_repopath_config(_config.get_key("DEFAULT", "repopath"))
CheckRepopathConfig ==
    /\ pc = "check_repopath_config"
    /\ IF ~truthy(get_key(config, DEFAULT, txt_repopath))
       THEN /\ stderr' = Append(stderr, "Path to repo not configured")
            /\ exit_status' = "1"
            /\ pc' = "exit"
       ELSE /\ pc' = "create"
            /\ UNCHANGED <<stderr, exit_status>>
    /\ UNCHANGED <<files, runs, dry, reader, parser, config, environ, borg, dispatched,
                   stdout, calls>>

\* BorgBackup.borg(*args): the preview in dry mode, else the borg process
Dispatch(b, args) ==
    /\ dispatched' = Append(dispatched, args)
    /\ IF b.dry
       THEN /\ stdout' = Append(stdout, Printed("pygments.print", dry_mode(b, args)))
            /\ UNCHANGED calls
       ELSE /\ calls' = Append(calls, run_borg(b, args))
            /\ UNCHANGED stdout

\* main from funcs.get_path to borg.create
Create ==
    /\ pc = "create"
    /\ \E now \in Moments, which \in Which :
         LET transport == get_keytuple(config,
                              << Item("SSH", <<txt_remoteuser, txt_remotehost,
                                               txt_port>>),
                                 Item(DEFAULT, <<txt_repopath, txt_ssh>>) >>, 1)
             fullpath == get_path(transport[1], transport[2], transport[3],
                                  transport[4], transport[5])
             made == BorgBackup(fullpath, dry,
                                get_keytuple(config,
                                    << Item(DEFAULT, <<txt_reponame,
                                                       txt_timestamp>>) >>, 1),
                                which, now)
             backup == return_all(config, "BACKUP")
             include_args == get_include(include)
             exclude_args == get_exclude(exclude)
         IN  IF ~made.ok
             THEN /\ Raise("TypeError")
                  /\ UNCHANGED <<borg, dispatched, stdout, calls>>
             ELSE /\ borg' = made.borg
                  /\ IF ~backup.ok
                     THEN /\ Raise("KeyError")
                          /\ UNCHANGED <<dispatched, stdout, calls>>
                     ELSE IF ~include_args.ok \/ ~exclude_args.ok
                     THEN /\ Raise("IndexError")
                          /\ UNCHANGED <<dispatched, stdout, calls>>
                     ELSE /\ Dispatch(made.borg,
                                      create(made.borg, backup.args,
                                             exclude_args.v, include_args.v))
                          /\ pc' = "prune"
                          /\ UNCHANGED exit_status
    /\ UNCHANGED <<files, runs, dry, reader, parser, config, environ, stderr>>

\* main from the test of the prune setting to its end
Prune ==
    /\ pc = "prune"
    /\ IF truthy(get_key(config, DEFAULT, txt_prune))
       THEN LET pruneargs == return_all(config, "PRUNE") IN
            IF ~pruneargs.ok
            THEN /\ Raise("KeyError")
                 /\ UNCHANGED <<dispatched, stdout, calls>>
            ELSE /\ Dispatch(borg, prune(borg, pruneargs.args))
                 /\ exit_status' = "0"
                 /\ pc' = "exit"
       ELSE /\ exit_status' = "0"
            /\ pc' = "exit"
            /\ UNCHANGED <<dispatched, stdout, calls>>
    /\ UNCHANGED <<files, runs, dry, reader, parser, config, environ, borg, stderr>>

\* the process ends: what it held in memory is gone
Terminate ==
    /\ pc = "exit"
    /\ pc' = "idle"
    /\ dry' = FALSE
    /\ reader' = ConfigParser
    /\ parser' = ConfigParser
    /\ config' = <<>>
    /\ environ' = None
    /\ borg' = NoBorg
    /\ dispatched' = <<>>
    /\ stdout' = <<>>
    /\ stderr' = <<>>
    /\ calls' = <<>>
    /\ exit_status' = ""
    /\ UNCHANGED <<files, runs>>

Next ==
    \/ UserSetOption
    \/ UserAddSection
    \/ UserTruncateConfig
    \/ UserRemoveConfig
    \/ UserEditInclude
    \/ UserEditExclude
    \/ UserRemoveLists
    \/ UserWriteKeyfile
    \/ Main
    \/ InitializeConfigFirstRun
    \/ InitializeConfigRead
    \/ SetPassphrase
    \/ CheckRepopathConfig
    \/ Create
    \/ Prune
    \/ Terminate

Spec == Init /\ [][Next]_vars

(* ------------------------------------------------------------------ *)
(* Two runs of main on one profile: RawConfig.read, step by step       *)
(* ------------------------------------------------------------------ *)

\* what main does not touch while it is in RawConfig.read
main_vars ==
    <<include, exclude, keyfile, pc, dry, reader, parser, config, environ,
      borg, dispatched, stdout, stderr, calls, exit_status>>

\* the option lines a user writes into config.ini while runs go on
ConcurrentSessions ==
    { << [sec |-> DEFAULT, key |-> txt_prune, delim |-> " = ",
          val |-> <<"F", "a", "l", "s", "e">>] >>,
      << [sec |-> "PRUNE", key |-> txt_keep_daily, delim |-> " = ",
          val |-> <<"1">>] >> }

\* the config file of a profile whose user has set repopath after the
\* first run, the data files as initialize_datafiles leaves them
InitConcurrent ==
    /\ runs = [p \in Procs |-> NoRun]
    /\ config_ini =
           File(set_options(write_values(load_default_values).lines,
                            << [sec |-> DEFAULT, key |-> txt_repopath,
                                delim |-> " = ", val |-> dev_null] >>, 1))
    /\ include = initialize_data_file(NoText, include_pathlist)
    /\ exclude = initialize_data_file(NoText, exclude_pathlist)
    /\ keyfile = NoText
    /\ edits = 0
    /\ pc = "idle"
    /\ dry = FALSE
    /\ reader = ConfigParser
    /\ parser = ConfigParser
    /\ config = <<>>
    /\ environ = None
    /\ borg = NoBorg
    /\ dispatched = <<>>
    /\ stdout = <<>>
    /\ stderr = <<>>
    /\ calls = <<>>
    /\ exit_status = ""

\* RawConfig.read from _load_default_values to the end of its loop: the
\* file is loaded as it is now, and the run holds the reconciled parser.
\* A file that configparser cannot parse ends the run.
ReadLoad(p) ==
    /\ runs[p].at = "idle"
    /\ config_ini.exists
    /\ LET loaded == parser_read(config_ini) IN
       runs' = [runs EXCEPT ![p] =
                   IF loaded.ok
                   THEN [at |-> "open", reader |-> loaded.parser,
                         parser |-> read_reconcile(loaded.parser)]
                   ELSE [at |-> "exit", reader |-> ConfigParser,
                         parser |-> load_default_values]]
    /\ UNCHANGED <<config_ini, edits, main_vars>>

\* write_values: open(self.configpath, "w") truncates the file
WriteValuesOpen(p) ==
    /\ runs[p].at = "open"
    /\ config_ini' = File(<<>>)
    /\ runs' = [runs EXCEPT ![p].at = "write"]
    /\ UNCHANGED <<edits, main_vars>>

\* what a file holds after `written` was written at its start: what was in
\* the file beyond the written part stays.  The file is lines here, so the
\* part that stays is lines.
overwrite(written, present) ==
    written \o SubSeq(present, Len(written) + 1, Len(present))

\* a write_values that writes the file as it is now, reconciled again
WriteValuesWrite_reloaded(p) ==
    /\ runs[p].at = "write"
    /\ config_ini' =
           IF parser_read(config_ini).ok
           THEN write_values(read_reconcile(parser_read(config_ini).parser))
           ELSE config_ini
    /\ runs' = [runs EXCEPT ![p].at = "exit"]
    /\ UNCHANGED <<edits, main_vars>>

\* write_values: self.parser.write(configfile) and the close of the file;
\* the run writes from the start of the file, whatever the file holds now
WriteValuesWrite(p) ==
    /\ runs[p].at = "write"
    /\ config_ini' = File(overwrite(parser_write(runs[p].parser),
                                    config_ini.lines))
    /\ runs' = [runs EXCEPT ![p].at = "exit"]
    /\ UNCHANGED <<edits, main_vars>>

\* the process ends
RunExit(p) ==
    /\ runs[p].at = "exit"
    /\ runs' = [runs EXCEPT ![p] = NoRun]
    /\ UNCHANGED <<config_ini, edits, main_vars>>

\* the user saves config.ini from an editor while runs go on
EditorWrite ==
    /\ edits < MaxEdits
    /\ \E session \in ConcurrentSessions :
           config_ini' = File(set_options(config_ini.lines, session, 1))
    /\ edits' = edits + 1
    /\ UNCHANGED <<runs, main_vars>>

NextConcurrent ==
    \/ \E p \in Procs : ReadLoad(p)
    \/ \E p \in Procs : WriteValuesOpen(p)
    \/ \E p \in Procs : WriteValuesWrite(p)
    \/ \E p \in Procs : RunExit(p)
    \/ EditorWrite

SpecConcurrent == InitConcurrent /\ [][NextConcurrent]_vars

(* ------------------------------------------------------------------ *)
(* The properties                                                      *)
(* ------------------------------------------------------------------ *)

\* the run has loaded the configuration and has not ended
Loaded == pc \in {"set_passphrase", "check_repopath_config", "create", "prune"}

keep_prefix == <<"-", "-", "k", "e", "e", "p", "-">>

\* the archive locator {repo}::{reponame}-{timestamp} of the run
archive_locator ==
    borg.repo \o <<":", ":">> \o str(get_key(config, DEFAULT, txt_reponame))
    \o <<"-">> \o borg.date

\* C1: the tokens BorgBackup.create dispatches are "create", the flags of
\* the BACKUP section, the exclude tokens, the one archive locator
\* {repo}::{reponame}-{timestamp} and the include tokens, in that order, so
\* that every exclude token is before the locator and every include token
\* is after it.
C1_CreateTokens ==
    dispatched # <<>> =>
        LET F == return_all(config, "BACKUP").args
            E == get_exclude(exclude).v
            I == get_include(include).v
            tokens == dispatched[1]
            at == 2 + Len(F) + Len(E)
        IN  /\ tokens = <<<<"c", "r", "e", "a", "t", "e">>>> \o F \o E
                        \o <<archive_locator>> \o I
            /\ tokens[at] = archive_locator
            /\ \A i \in 1..Len(E) : tokens[1 + Len(F) + i] = E[i]
            /\ \A i \in 1..Len(I) : tokens[at + i] = I[i]

\* create was dispatched with exclude tokens and include tokens
C1_Witness ==
    /\ dispatched # <<>>
    /\ get_exclude(exclude).v # <<>>
    /\ get_include(include).v # <<>>
    /\ get_exclude(exclude).v # format_exclude(get_include(include).v)

\* C2: the tokens BorgBackup.prune dispatches are "prune", the tokens of the
\* PRUNE flags that do not start with --keep- in their order, the repository
\* locator without the archive suffix, and the tokens that start with
\* --keep- in their order; no token is lost or repeated.
C2_PruneTokens ==
    Len(dispatched) = 2 =>
        LET F == return_all(config, "PRUNE").args
            rest == SelectSeq(F, LAMBDA a : ~startswith(a, keep_prefix))
            keep == SelectSeq(F, LAMBDA a : startswith(a, keep_prefix))
            tokens == dispatched[2]
        IN  /\ tokens = <<<<"p", "r", "u", "n", "e">>>> \o rest
                        \o <<borg.repo>> \o keep
            /\ Len(tokens) = Len(F) + 2
            /\ borg.repo # archive_locator
            /\ \A i \in 1..(Len(borg.repo) - 1) :
                   ~(borg.repo[i] = ":" /\ borg.repo[i + 1] = ":")

\* prune was dispatched for flags that have a --keep- token before a token
\* that does not start with --keep-
C2_Witness ==
    /\ Len(dispatched) = 2
    /\ LET F == return_all(config, "PRUNE").args
       IN  \E i, j \in 1..Len(F) :
               /\ i < j
               /\ startswith(F[i], keep_prefix)
               /\ ~startswith(F[j], keep_prefix)

\* the indexes of the keys of a section that hold the boolean True
TrueAt(obj) == { i \in 1..Len(obj) : obj[i].v = Bool(TRUE) }

\* the indexes of the keys of a section that hold a string
StrAt(obj) == { i \in 1..Len(obj) : obj[i].v.t = "str" }

\* C3: for a section of the typed view, return_all gives the token --key
\* for each key that holds True, no token for a key that holds False, and
\* the token --key value for each key that holds a string; the tokens of
\* the booleans come first, in the order of the keys in the section, then
\* the key-value tokens, in the order of the keys in the section.
C3_ReturnAll ==
    Loaded =>
        \A n \in 1..Len(config) :
            LET obj == config[n].v
                out == return_all(config, config[n].k).args
                flags == Cardinality(TrueAt(obj))
            IN  /\ return_all(config, config[n].k).ok
                /\ Len(out) = flags + Cardinality(StrAt(obj))
                /\ \A i \in TrueAt(obj) :
                       out[Cardinality({j \in TrueAt(obj) : j <= i})]
                           = <<"-", "-">> \o obj[i].k
                /\ \A i \in StrAt(obj) :
                       out[flags + Cardinality({j \in StrAt(obj) : j <= i})]
                           = <<"-", "-">> \o obj[i].k \o <<" ">> \o obj[i].v.s
                /\ \A i \in 1..Len(obj) :
                       obj[i].v = Bool(FALSE) =>
                           \A p \in 1..Len(out) :
                               /\ out[p] # <<"-", "-">> \o obj[i].k
                               /\ ~startswith(out[p], <<"-", "-">> \o obj[i].k
                                                      \o <<" ">>)

\* the typed view has a section where a key that holds a string is stored
\* before a key that holds True, and a section with a key that holds False
C3_Witness ==
    /\ Loaded
    /\ \E n \in 1..Len(config) :
           \E i \in StrAt(config[n].v), j \in TrueAt(config[n].v) : i < j
    /\ \E n \in 1..Len(config) :
           \E i \in 1..Len(config[n].v) : config[n].v[i].v = Bool(FALSE)

\* the default-section repopath of the loaded configuration is None
repopath_is_null ==
    /\ has_option(parser, DEFAULT, txt_repopath)
    /\ parser_get(parser, DEFAULT, txt_repopath) = NONE

\* C4: a run that has loaded a configuration whose default-section repopath
\* is the null marker None prints the missing-repository message to stderr
\* and exits with status 1; the steps that build and dispatch the create
\* and the prune tokens are never reached with that configuration.
C4_MissingRepository ==
    /\ [](repopath_is_null =>
             /\ pc \notin {"create", "prune"}
             /\ dispatched = <<>>
             /\ calls = <<>>)
    /\ [][(pc = "check_repopath_config" /\ repopath_is_null) =>
              /\ pc' = "exit"
              /\ exit_status' = "1"
              /\ stderr' = <<"Path to repo not configured">>
              /\ dispatched' = <<>>
              /\ calls' = <<>>]_vars

\* a run has ended with status 1 on a configuration whose repopath is None
C4_Witness ==
    /\ pc = "exit"
    /\ exit_status = "1"
    /\ reader.defaults # <<>>
    /\ repopath_is_null
    /\ stderr = <<"Path to repo not configured">>

\* the sections and the (section, key) pairs of the default schema
SchemaSections == { default_values[n].k : n \in 1..Len(default_values) }

SchemaPairs ==
    UNION { { <<default_values[n].k, optionxform(default_values[n].v[i].k)>> :
                i \in 1..Len(default_values[n].v) } :
            n \in 1..Len(default_values) }

\* the value the schema gives a pair, as _load_default_values stores it
SchemaDefault(section, key) ==
    str(DictGet(DictGet(default_values, section), key))

\* the section a line of a config file is in: the nearest header above it
section_of(lines, i) ==
    IF \E j \in 1..i : lines[j].t = "sec"
    THEN lines[CHOOSE j \in 1..i :
                   /\ lines[j].t = "sec"
                   /\ \A m \in (j + 1)..i : lines[m].t # "sec"].name
    ELSE ""

\* the option lines of a config file
OptionLines(file) == { i \in 1..Len(file.lines) : file.lines[i].t = "opt" }

\* the (section, key) pairs a config file spells
FilePairs(file) ==
    { <<section_of(file.lines, i), file.lines[i].key>> : i \in OptionLines(file) }

\* the section has the option itself, not by inheritance from DEFAULT
own_option(p, section, key) ==
    IF section = DEFAULT
    THEN DictHas(p.defaults, key)
    ELSE has_section(p, section) /\ DictHas(DictGet(p.sections, section), key)

\* C5: after RawConfig.read has loaded, reconciled and rewritten the file,
\* a second RawConfig.read leaves the file as the first left it.
C5_ReadIdempotent ==
    pc = "set_passphrase" => RawConfig_read(config_ini).file = config_ini

\* the headers of a config file that name no section of the schema
UnknownSections(file) ==
    { file.lines[i].name : i \in { j \in 1..Len(file.lines) :
                                       file.lines[j].t = "sec" } }
    \ SchemaSections

\* the keys a config file spells under such a header, that the schema does
\* not define
UnknownSectionKeys(file) ==
    { optionxform(file.lines[i].key) :
        i \in { j \in OptionLines(file) :
                  section_of(file.lines, j) \notin SchemaSections } }
    \ { pair[2] : pair \in SchemaPairs }

\* C6: when the config file that configparser can parse has a section that
\* is not a section of the schema, RawConfig.read does not end the run, and
\* the file it writes has neither that section nor the keys of that section.
C6_UnknownSectionDropped ==
    [][(/\ pc = "initialize_config"
        /\ config_ini.exists
        /\ UnknownSections(config_ini) # {}
        /\ parser_read(config_ini).ok) =>
           /\ pc' = "set_passphrase"
           /\ exit_status' = ""
           /\ UnknownSections(config_ini') = {}
           /\ \A i \in OptionLines(config_ini') :
                  /\ section_of(config_ini'.lines, i) \in SchemaSections
                  /\ optionxform(config_ini'.lines[i].key)
                         \notin UnknownSectionKeys(config_ini)]_vars

\* RawConfig.read has parsed a file with a section that is not in the schema
\* and has rewritten the file
C6_Witness ==
    /\ pc = "set_passphrase"
    /\ \E n \in 1..Len(reader.sections) :
           /\ reader.sections[n].k \notin SchemaSections
           /\ reader.sections[n].v # <<>>
    /\ UnknownSections(config_ini) = {}

\* C7: after RawConfig.read, every (section, key) pair of the rewritten file
\* is a pair of the default schema.
C7_OnlySchemaPairs ==
    pc = "set_passphrase" => FilePairs(config_ini) \subseteq SchemaPairs

\* every pair of the schema is in the parser and in the file that was
\* written, and a pair the reader did not have has its default value
SchemaHealed(read_reader, read_parser, read_file) ==
    \A pair \in SchemaPairs :
        /\ own_option(read_parser, pair[1], pair[2])
        /\ pair \in FilePairs(read_file)
        /\ ~own_option(read_reader, pair[1], pair[2]) =>
               /\ parser_get(read_parser, pair[1], pair[2])
                      = SchemaDefault(pair[1], pair[2])
               /\ \A i \in OptionLines(read_file) :
                      (/\ section_of(read_file.lines, i) = pair[1]
                       /\ read_file.lines[i].key = pair[2]) =>
                          read_file.lines[i].val
                              = SchemaDefault(pair[1], pair[2])

\* C8: after RawConfig.read, on an empty or a missing file too, every
\* (section, key) pair of the default schema is in the parser and in the
\* rewritten file, and a pair the file did not have has the value the
\* schema gives it.
C8_SchemaPresent ==
    /\ pc = "set_passphrase" => SchemaHealed(reader, parser, config_ini)
    /\ (pc = "initialize_config" /\ ~config_ini.exists) =>
           LET read == RawConfig_read(NoFile)
           IN  read.ok /\ SchemaHealed(read.reader, read.parser, read.file)

\* RawConfig.read has parsed a file that lacks a pair of the schema and
\* gives another pair a value that is not its default
C8_Witness ==
    /\ pc = "set_passphrase"
    /\ \E pair \in SchemaPairs : ~own_option(reader, pair[1], pair[2])
    /\ \E pair \in SchemaPairs :
           /\ own_option(reader, pair[1], pair[2])
           /\ parser_get(parser, pair[1], pair[2])
                  # SchemaDefault(pair[1], pair[2])

\* C9: a key whose raw value is exactly None is not in the typed view and
\* get_key returns None for it; a key whose raw value differs from None in
\* the case of its letters is in the typed view with that value.
C9_NullMarker ==
    Loaded =>
        LET raw == raw_dict(parser) IN
        \A n \in 1..Len(raw) : \A i \in 1..Len(raw[n].v) :
            LET section == raw[n].k
                key == raw[n].v[i].k
                value == raw[n].v[i].v
            IN  /\ value = NONE =>
                       /\ get_key(config, section, key) = None
                       /\ \A m \in 1..Len(config) :
                              config[m].k = section =>
                                  ~DictHas(config[m].v, key)
                /\ (value # NONE /\ lower(value) = lower(NONE)) =>
                       get_key(config, section, key) = Str(value)

\* the loaded configuration has a key whose raw value is None and a key
\* whose raw value is none
C9_Witness ==
    /\ Loaded
    /\ parser_get(parser, "ENVIRONMENT", txt_keyfile) = NONE
    /\ parser_get(parser, DEFAULT, txt_repopath) = <<"n", "o", "n", "e">>
    /\ get_key(config, DEFAULT, txt_repopath) = Str(<<"n", "o", "n", "e">>)

\* C10: for a key whose name does not start with keep- and whose raw value
\* is true or false in any letter case, get_key returns the boolean.
C10_Booleans ==
    Loaded =>
        LET raw == raw_dict(parser) IN
        \A n \in 1..Len(raw) : \A i \in 1..Len(raw[n].v) :
            LET section == raw[n].k
                key == raw[n].v[i].k
                value == lower(raw[n].v[i].v)
            IN  ~startswith(key, <<"k", "e", "e", "p", "-">>) =>
                    /\ value = <<"t", "r", "u", "e">> =>
                           get_key(config, section, key) = Bool(TRUE)
                    /\ value = <<"f", "a", "l", "s", "e">> =>
                           get_key(config, section, key) = Bool(FALSE)

\* the loaded configuration has a raw value FALSE and a raw value tRUE
C10_Witness ==
    /\ Loaded
    /\ parser_get(parser, "BACKUP", txt_verbose) = <<"F", "A", "L", "S", "E">>
    /\ get_key(config, "BACKUP", txt_verbose) = Bool(FALSE)
    /\ parser_get(parser, "PRUNE", txt_stats) = <<"t", "R", "U", "E">>
    /\ get_key(config, "PRUNE", txt_stats) = Bool(TRUE)

retention_prefix == <<"k", "e", "e", "p", "-">>

\* C11: true and false, in any letter case, are the only raw values that
\* the conversion turns into booleans: any other raw value of a key that
\* does not start with keep- (1, 0, yes, no, on, off, a port number, a
\* path) is in the typed view as the string it was.
C11_OnlyTrueFalse ==
    Loaded =>
        LET raw == raw_dict(parser) IN
        \A n \in 1..Len(raw) : \A i \in 1..Len(raw[n].v) :
            LET section == raw[n].k
                key == raw[n].v[i].k
                value == raw[n].v[i].v
            IN  (/\ ~startswith(key, retention_prefix)
                 /\ value # NONE
                 /\ lower(value) \notin { <<"t", "r", "u", "e">>,
                                          <<"f", "a", "l", "s", "e">> }) =>
                    get_key(config, section, key) = Str(value)

LookupSections == SchemaSections \cup {"NOT_A_SECTION", "STYLES"}

LookupKeys ==
    { pair[2] : pair \in SchemaPairs }
    \cup { <<"b", "a", "d", "_", "k", "e", "y">>,
           <<"p", "r", "e", "f", "i", "x">>, <<"z">> }

\* the typed view has the key in the section
in_typed_view(section, key) ==
    \E n \in 1..Len(config) :
        /\ config[n].k = section
        /\ \E i \in 1..Len(config[n].v) : config[n].v[i].k = key

\* C13: get_key is total: for any section name and key name it returns the
\* value of the typed view, and None where the typed view does not have the
\* key: a key that was the null marker, a key or a section that never
\* existed, a section that was dropped because it had no key left.
C13_GetKeyTotal ==
    Loaded =>
        \A section \in LookupSections, key \in LookupKeys :
            IF in_typed_view(section, key)
            THEN get_key(config, section, key).t \in {"bool", "str"}
            ELSE get_key(config, section, key) = None

\* the typed view of the loaded configuration has no section ENVIRONMENT,
\* whose one key is the null marker, and get_key returns None for the key
C13_Witness ==
    /\ Loaded
    /\ parser_get(parser, "ENVIRONMENT", txt_keyfile) = NONE
    /\ \A n \in 1..Len(config) : config[n].k # "ENVIRONMENT"
    /\ get_key(config, "ENVIRONMENT", txt_keyfile) = None
    /\ get_key(config, "NOT_A_SECTION", <<"z">>) = None

\* the keys main asks get_keytuple for, for the arguments of get_path
transport_keys ==
    << Item("SSH", <<txt_remoteuser, txt_remotehost, txt_port>>),
       Item(DEFAULT, <<txt_repopath, txt_ssh>>) >>

\* C14: get_keytuple returns one value, or None, for each key it is asked
\* for, in the order of the sections and of the keys of each section, so
\* that main binds remoteuser, remotehost, port, repopath and ssh to the
\* parameters of get_path in that order.
C14_KeyTupleOrder ==
    Loaded =>
        LET values == get_keytuple(config, transport_keys, 1)
            naming == get_keytuple(config,
                          << Item(DEFAULT, <<txt_reponame, txt_timestamp>>) >>,
                          1)
        IN  /\ Len(values) = 5
            /\ values[1] = get_key(config, "SSH", txt_remoteuser)
            /\ values[2] = get_key(config, "SSH", txt_remotehost)
            /\ values[3] = get_key(config, "SSH", txt_port)
            /\ values[4] = get_key(config, DEFAULT, txt_repopath)
            /\ values[5] = get_key(config, DEFAULT, txt_ssh)
            /\ naming = << get_key(config, DEFAULT, txt_reponame),
                           get_key(config, DEFAULT, txt_timestamp) >>
            /\ dispatched # <<>> =>
                   borg.repo
                       = str(get_path(get_key(config, "SSH", txt_remoteuser),
                                      get_key(config, "SSH", txt_remotehost),
                                      get_key(config, "SSH", txt_port),
                                      get_key(config, DEFAULT, txt_repopath),
                                      get_key(config, DEFAULT, txt_ssh)))
                         \o <<"/">> \o str(get_key(config, DEFAULT, txt_reponame))

\* create was dispatched for a configuration whose typed view has no port,
\* so that the third value of the tuple is None
C14_Witness ==
    /\ dispatched # <<>>
    /\ get_keytuple(config, transport_keys, 1)[3] = None
    /\ get_keytuple(config, transport_keys, 1)[5] = Bool(TRUE)

\* the lines of a list file whose first character is not #
PathLines(file) ==
    SelectSeq(read_datafile(file), LAMBDA f : f = <<>> \/ f[1] # "#")

\* for each of these lines, the text before its first #, trimmed
PathTokens(file) ==
    [i \in 1..Len(PathLines(file)) |-> strip(split_hash(PathLines(file)[i]))]

\* C15: of an include or exclude list, a line that starts with # gives no
\* token, and every other line gives as its path token the text before its
\* first #, with the whitespace around it trimmed; the tokens are in the
\* order of the lines.
C15_PathTokens ==
    /\ (include.exists /\ get_files(include).ok) =>
           get_include(include).v = PathTokens(include)
    /\ (exclude.exists /\ get_files(exclude).ok) =>
           get_files(exclude).v = PathTokens(exclude)

\* C16: a line of length zero in an include or exclude list is accepted and
\* gives an empty token; no content of a line makes the loading of a list
\* fail.
C16_BlankLines ==
    /\ exit_status # "IndexError"
    /\ include.exists =>
           /\ get_files(include).ok
           /\ Len(get_files(include).v) = Len(PathLines(include))
    /\ exclude.exists =>
           /\ get_files(exclude).ok
           /\ Len(get_files(exclude).v) = Len(PathLines(exclude))

exclude_flag == <<"-", "-", "e", "x", "c", "l", "u", "d", "e", " ">>

\* C17: for a list file that does not exist, get_include and get_exclude
\* return the empty sequence and raise nothing, and create is dispatched
\* without include tokens, without exclude tokens: the missing file is never
\* what ends the run.
C17_MissingLists ==
    /\ ~include.exists => get_include(include) = [ok |-> TRUE, v |-> <<>>]
    /\ ~exclude.exists => get_exclude(exclude) = [ok |-> TRUE, v |-> <<>>]
    /\ (dispatched # <<>> /\ ~include.exists) =>
           dispatched[1][Len(dispatched[1])] = archive_locator
    /\ (dispatched # <<>> /\ ~exclude.exists) =>
           \A p \in 1..Len(dispatched[1]) :
               ~startswith(dispatched[1][p], exclude_flag)
    /\ exit_status = "IndexError" =>
           \/ include.exists /\ ~get_files(include).ok
           \/ exclude.exists /\ ~get_files(exclude).ok

\* create was dispatched in a run whose include list and exclude list were
\* both removed before they were loaded
C17_Witness ==
    /\ dispatched # <<>>
    /\ ~include.exists
    /\ ~exclude.exists
    /\ Len(dispatched[1]) = 2 + Len(return_all(config, "BACKUP").args)

ssh_authority ==
    str(get_key(config, "SSH", txt_remoteuser)) \o <<"@">>
    \o str(get_key(config, "SSH", txt_remotehost)) \o <<":">>
    \o str(get_key(config, "SSH", txt_port))

\* C19: the repository path of a run is
\* ssh://{remoteuser}@{remotehost}:{port}{repopath} when the ssh setting is
\* true and repopath unchanged when it is false; with ssh false no token of
\* the dispatched create and prune has the ssh scheme or the user, host and
\* port of the SSH section.
C19_RepositoryPath ==
    dispatched # <<>> =>
        LET ssh == get_key(config, DEFAULT, txt_ssh)
            repopath == str(get_key(config, DEFAULT, txt_repopath))
            reponame == str(get_key(config, DEFAULT, txt_reponame))
            ssh_scheme == <<"s", "s", "h", ":", "/", "/">>
            contains(s, sub) ==
                \E i \in 0..(Len(s) - Len(sub)) :
                    SubSeq(s, i + 1, i + Len(sub)) = sub
        IN  /\ ssh = Bool(TRUE) =>
                   borg.repo = ssh_scheme \o ssh_authority \o repopath
                               \o <<"/">> \o reponame
            /\ ssh = Bool(FALSE) =>
                   /\ borg.repo = repopath \o <<"/">> \o reponame
                   /\ \A n \in 1..Len(dispatched) :
                          \A i \in 1..Len(dispatched[n]) :
                              /\ ~contains(dispatched[n][i], ssh_scheme)
                              /\ ~contains(dispatched[n][i], ssh_authority)

\* create and prune were both dispatched in a run with ssh = False
C19_Witness ==
    /\ Len(dispatched) = 2
    /\ get_key(config, DEFAULT, txt_ssh) = Bool(FALSE)
    /\ borg.repo = <<"/", "d", "e", "v", "/", "n", "u", "l", "l", "/">>
                   \o hostname

\* the typed view of the default configuration with repopath = /dev/null
\* and ssh = False
local_defaults ==
    convert_proxy(
        parser_set(parser_set(load_default_values, DEFAULT, txt_repopath,
                              <<"/", "d", "e", "v", "/", "n", "u", "l", "l">>),
                   DEFAULT, txt_ssh, <<"F", "a", "l", "s", "e">>))

\* C20: with the default configuration except repopath = /dev/null and
\* ssh = False, reponame HOST and no include or exclude tokens, the tokens of
\* the dispatched create are exactly create, --verbose, --stats, --list,
\* --show-rc, --exclude-caches, "--filter AME", "--compression lz4" and
\* /dev/null/HOST::HOST-{timestamp}, with nothing after the locator.
C20_DefaultCreate ==
    (/\ dispatched # <<>>
     /\ config = local_defaults
     /\ get_include(include).v = <<>>
     /\ get_exclude(exclude).v = <<>>) =>
        /\ dispatched[1] =
              << <<"c", "r", "e", "a", "t", "e">>,
                 <<"-", "-", "v", "e", "r", "b", "o", "s", "e">>,
                 <<"-", "-", "s", "t", "a", "t", "s">>,
                 <<"-", "-", "l", "i", "s", "t">>,
                 <<"-", "-", "s", "h", "o", "w", "-", "r", "c">>,
                 <<"-", "-", "e", "x", "c", "l", "u", "d", "e", "-",
                   "c", "a", "c", "h", "e", "s">>,
                 <<"-", "-", "f", "i", "l", "t", "e", "r", " ", "A", "M", "E">>,
                 <<"-", "-", "c", "o", "m", "p", "r", "e", "s", "s", "i", "o",
                   "n", " ", "l", "z", "4">>,
                 <<"/", "d", "e", "v", "/", "n", "u", "l", "l", "/",
                   "H", "O", "S", "T", ":", ":", "H", "O", "S", "T", "-">>
                 \o borg.date >>
        /\ \E now \in Moments :
               borg.date = <<"2", "0", "2", "1", "-", "0", "2", "-", "0", "7",
                             "T", "1", "6", ":", "1", "2", ":">> \o now.S
        /\ Len(dispatched[1]) = 9

\* create was dispatched with the default configuration except
\* repopath = /dev/null and ssh = False, and without include and exclude
\* tokens
C20_Witness ==
    /\ dispatched # <<>>
    /\ config = local_defaults
    /\ get_include(include).v = <<>>
    /\ get_exclude(exclude).v = <<>>
    /\ get_key(config, DEFAULT, txt_reponame) = Str(hostname)

\* "\n  ".join(tokens)
RECURSIVE join_lines(_)
join_lines(tokens) ==
    IF tokens = <<>>
    THEN <<>>
    ELSE IF Len(tokens) = 1
    THEN tokens[1]
    ELSE tokens[1] \o <<"\n", " ", " ">> \o join_lines(Tail(tokens))

\* the entries of stdout that pygments.print wrote
previews == SelectSeq(stdout, LAMBDA e : e.by = "pygments.print")

\* C21: the borg process is called only in a run without --dry whose borg
\* binary was found, once for each dispatch; in a run with --dry or without
\* a borg binary every dispatch only prints the preview, which is the name of
\* the binary ("borg" when none was found) and the tokens, and no process
\* is called in that run.
C21_DryOrBinary ==
    dispatched # <<>> =>
        LET located == borg.bin # None
            name == IF located THEN borg.bin.s ELSE <<"b", "o", "r", "g">>
        IN  /\ calls # <<>> => (~dry /\ located)
            /\ (~dry /\ located) =>
                   /\ previews = <<>>
                   /\ Len(calls) = Len(dispatched)
                   /\ \A n \in 1..Len(calls) :
                          calls[n] = <<borg.bin.s>> \o dispatched[n]
            /\ (dry \/ ~located) =>
                   /\ calls = <<>>
                   /\ Len(previews) = Len(dispatched)
                   /\ \A n \in 1..Len(previews) :
                          previews[n].text =
                              <<"\n">> \o name \o <<" ">>
                              \o join_lines(dispatched[n])

\* create and prune were dispatched in a run without --dry that found no
\* borg binary
C21_Witness ==
    /\ Len(dispatched) = 2
    /\ ~dry
    /\ borg.bin = None
    /\ Len(previews) = 2

\* the config file that write_new_config writes
new_config == write_values(load_default_values)

\* announce_first_run has printed in this run
first_run_announced ==
    \E i \in 1..Len(stdout) : stdout[i].by = "announce_first_run"

\* C22: a run that finds no config file writes the schema defaults to the
\* config file, prints the first-run notice and ends with exit status 0
\* without a dispatch; a run that then reads the unchanged defaults leaves
\* the file as it is and ends with the missing-repository message and
\* exit status 1, again without a dispatch.
C22_FirstRun ==
    [][ /\ (pc = "initialize_config" /\ ~config_ini.exists) =>
               /\ config_ini' = new_config
               /\ first_run_announced'
               /\ pc' = "exit"
               /\ exit_status' = "0"
               /\ dispatched' = <<>>
               /\ calls' = <<>>
        /\ (pc = "initialize_config" /\ config_ini = new_config) =>
               /\ config_ini' = new_config
               /\ parser' = load_default_values
               /\ pc' = "set_passphrase"
        /\ (pc = "set_passphrase" /\ parser = load_default_values) =>
               /\ pc' = "check_repopath_config"
               /\ parser' = parser
        /\ (pc = "check_repopath_config" /\ parser = load_default_values) =>
               /\ pc' = "exit"
               /\ exit_status' = "1"
               /\ stderr' = <<"Path to repo not configured">>
               /\ dispatched' = <<>>
               /\ calls' = <<>>
      ]_vars

\* the run after the first run, with no edit in between, has ended with
\* the missing-repository message
C22_Witness ==
    /\ edits = 0
    /\ pc = "exit"
    /\ exit_status = "1"
    /\ config_ini = new_config
    /\ parser = load_default_values
    /\ stderr = <<"Path to repo not configured">>
    /\ dispatched = <<>>

\* announce_keyfile has printed in this run
keyfile_announced ==
    \E i \in 1..Len(stdout) : stdout[i].by = "announce_keyfile"

\* the keyfile setting of the typed view
keyfile_setting == get_key(config, "ENVIRONMENT", txt_keyfile)

\* C23: when the keyfile setting is a path where no file is, set_passphrase
\* prints the keyfile advisory, leaves BORG_PASSPHRASE as it is and the run
\* goes on to the repository check; a run that printed the advisory and ends
\* with exit status 0 has dispatched create, and prune when prune is true.
C23_MissingKeyfile ==
    [][ /\ (/\ pc = "set_passphrase"
            /\ keyfile_setting.t = "str"
            /\ ~isfile(keyfile_setting)) =>
               /\ stdout' = Append(stdout, Printed("announce_keyfile", <<>>))
               /\ environ' = environ
               /\ pc' = "check_repopath_config"
               /\ exit_status' = exit_status
               /\ stderr' = stderr
        /\ (keyfile_announced /\ pc = "check_repopath_config"
            /\ truthy(get_key(config, DEFAULT, txt_repopath))) =>
               pc' = "create"
        /\ (keyfile_announced' /\ pc' = "exit") =>
               /\ environ' = None
               /\ exit_status' = "0" =>
                      Len(dispatched') =
                          IF truthy(get_key(config', DEFAULT, txt_prune))
                          THEN 2 ELSE 1
      ]_vars

\* a run whose keyfile setting names a file that does not exist has
\* printed the advisory and dispatched create and prune
C23_Witness ==
    /\ keyfile_announced
    /\ ~keyfile.exists
    /\ keyfile_setting = Str(KEYFILE_PATH)
    /\ environ = None
    /\ Len(dispatched) = 2
    /\ exit_status = "0"

\* C24: once a run is through set_passphrase with a keyfile setting that
\* names an existing file, BORG_PASSPHRASE is the content of the keyfile
\* without its leading and trailing whitespace, so it is set in every state
\* where create was dispatched; when the keyfile setting is the null marker
\* (absent from the typed view) BORG_PASSPHRASE is not set and the keyfile
\* advisory is not printed.
C24_Passphrase ==
    /\ LET \* s is text without its leading and trailing whitespace
           trimmed(text, s) ==
               /\ s = <<>> \/ (/\ s[1] \notin whitespace
                                /\ s[Len(s)] \notin whitespace)
               /\ \E lead \in 0..(Len(text) - Len(s)) :
                      /\ SubSeq(text, lead + 1, lead + Len(s)) = s
                      /\ \A i \in 1..lead : text[i] \in whitespace
                      /\ \A i \in (lead + Len(s) + 1)..Len(text) :
                             text[i] \in whitespace
           \* main has gone through set_passphrase in this run
           passphrase_step_done ==
               \/ pc \in {"check_repopath_config", "create", "prune"}
               \/ (pc = "exit" /\ (dispatched # <<>> \/ stderr # <<>>))
       IN  (passphrase_step_done /\ keyfile_setting.t = "str"
            /\ isfile(keyfile_setting)) =>
               /\ environ.t = "str"
               /\ trimmed(keyfile.text, environ.s)
               /\ ~keyfile_announced
    /\ dispatched # <<>> =>
           environ = IF keyfile_setting.t = "str" /\ isfile(keyfile_setting)
                     THEN Str(strip(keyfile.text)) ELSE None
    /\ keyfile_setting = None =>
           /\ environ = None
           /\ ~keyfile_announced

\* create was dispatched in a run whose keyfile exists, with the trimmed
\* content of the keyfile in BORG_PASSPHRASE
C24_Witness ==
    /\ dispatched # <<>>
    /\ keyfile.exists
    /\ keyfile.text = <<" ", "p", "w", "\n">>
    /\ keyfile_setting = Str(KEYFILE_PATH)
    /\ environ = Str(<<"p", "w">>)

\* C25: in every run the config file is read and rewritten and the typed
\* view is made before create is dispatched, and create is dispatched before
\* prune; create is dispatched at most once and prune at most once; prune is
\* dispatched only if the prune setting of the DEFAULT section is the
\* boolean true in the typed view.
C25_StepOrder ==
    /\ Len(dispatched) <= 2
    /\ dispatched # <<>> =>
           /\ dispatched[1][1] = <<"c", "r", "e", "a", "t", "e">>
           /\ config_ini = write_values(parser)
           /\ config = convert_proxy(parser)
    /\ Len(dispatched) = 2 =>
           /\ dispatched[2][1] = <<"p", "r", "u", "n", "e">>
           /\ get_key(config, DEFAULT, txt_prune) = Bool(TRUE)
    /\ (/\ pc = "exit" /\ exit_status = "0"
        /\ get_key(config, DEFAULT, txt_prune) \in {Bool(FALSE), None}
        /\ ~first_run_announced) =>
           Len(dispatched) = 1

\* C26: after RawConfig.read, every key of the default section of the loaded
\* file is in the reconciled configuration with the value of the file, and
\* no non-default section has a stray key of its own that the default
\* section defines, neither in the reconciled configuration nor in the rewritten
\* file: a key under a non-default section is copied only if the default
\* section does not define it.
C26_NoShadowing ==
    LET \* the (section, key) pairs of the non-default sections of a parser
        \* that are not pairs of the schema and whose key the default
        \* section of the parser defines too
        Shadows(p) ==
            { pair \in { <<p.sections[n].k, p.defaults[i].k>> :
                           n \in 1..Len(p.sections),
                           i \in 1..Len(p.defaults) } :
                own_option(p, pair[1], pair[2]) /\ pair \notin SchemaPairs }
    IN
    pc = "set_passphrase" =>
        /\ \A i \in 1..Len(reader.defaults) :
               /\ DictHas(parser.defaults, reader.defaults[i].k)
               /\ DictGet(parser.defaults, reader.defaults[i].k)
                      = reader.defaults[i].v
        /\ Shadows(parser) = {}
        /\ Shadows(parser_read(config_ini).parser) = {}

\* C27: in the typed view no section other than DEFAULT has a key that the
\* default section defines: get_key returns None for such a key under a
\* non-default section, and return_all("BACKUP") and return_all("PRUNE")
\* have no token for reponame, repopath, timestamp, ssh, prune or any other
\* key of DEFAULT.
C27_InheritedSuppressed ==
    LET \* the keys of the default section of the configuration that was
        \* read
        DefaultKeys == { parser.defaults[i].k : i \in 1..Len(parser.defaults) }
        \* the token that return_all renders for the key: the flag, or the
        \* key with a value
        token_of(token, key) ==
            \/ token = <<"-", "-">> \o key
            \/ startswith(token, <<"-", "-">> \o key \o <<" ">>)
    IN
    Loaded =>
        /\ {txt_reponame, txt_repopath, txt_timestamp, txt_ssh, txt_prune}
               \subseteq DefaultKeys
        /\ \A n \in 1..Len(config) :
               config[n].k # DEFAULT =>
                   \A i \in 1..Len(config[n].v) :
                       config[n].v[i].k \notin DefaultKeys
        /\ \A section \in SchemaSections \ {DEFAULT} :
               \A key \in DefaultKeys : get_key(config, section, key) = None
        /\ \A section \in {"BACKUP", "PRUNE"} :
               LET tokens == return_all(config, section).args
               IN  \A i \in 1..Len(tokens) :
                       \A key \in DefaultKeys : ~token_of(tokens[i], key)

\* the configuration that was read has a key under a non-default section
\* that its default section defines too, and the typed view was made
C27_Witness ==
    /\ pc = "set_passphrase"
    /\ config # <<>>
    /\ own_option(parser, "BACKUP", txt_ssh)
    /\ own_option(parser, DEFAULT, txt_ssh)
    /\ return_all(config, "BACKUP").ok

\* the value the section has for the option itself
own_value(p, section, key) ==
    IF section = DEFAULT
    THEN DictGet(p.defaults, key)
    ELSE DictGet(DictGet(p.sections, section), key)

\* C29: for every pair of the schema that the file defines under its own
\* section (and, for a non-default section, whose key the default section
\* of the file does not define) the reconciled configuration and the
\* rewritten file have the value the file had before RawConfig.read; the
\* pairs of the schema that the file does not define have the default of
\* the schema.
C29_UserValuesKept ==
    pc = "set_passphrase" =>
        LET rewritten == parser_read(config_ini).parser
            \* the pairs of the schema that the loaded file defines under
            \* their own section and, for a non-default section, not in its
            \* default section too
            UserSet(loaded) ==
                { pair \in SchemaPairs :
                    /\ own_option(loaded, pair[1], pair[2])
                    /\ pair[1] = DEFAULT
                       \/ ~own_option(loaded, DEFAULT, pair[2]) }
        IN  \A pair \in SchemaPairs :
                /\ own_option(parser, pair[1], pair[2])
                /\ own_option(rewritten, pair[1], pair[2])
                /\ own_value(rewritten, pair[1], pair[2])
                       = own_value(parser, pair[1], pair[2])
                /\ pair \in UserSet(reader) =>
                       own_value(parser, pair[1], pair[2])
                           = own_value(reader, pair[1], pair[2])
                /\ ~own_option(reader, pair[1], pair[2]) =>
                       own_value(parser, pair[1], pair[2])
                           = SchemaDefault(pair[1], pair[2])

\* RawConfig.read has read a file that sets keep-daily of PRUNE and
\* repopath of DEFAULT to values that are not the defaults of the schema
C29_Witness ==
    /\ pc = "set_passphrase"
    /\ own_option(reader, "PRUNE", txt_keep_daily)
    /\ ~own_option(reader, DEFAULT, txt_keep_daily)
    /\ own_value(reader, "PRUNE", txt_keep_daily) = <<"T", "r", "u", "e">>
    /\ own_value(parser, "PRUNE", txt_keep_daily) = <<"T", "r", "u", "e">>
    /\ own_value(parser, DEFAULT, txt_repopath) = dev_null

\* every key of its own that the section has in the configuration that was
\* read has the null marker
all_null(section) ==
    /\ has_section(parser, section)
    /\ \A i \in 1..Len(filter_default(parser, section)) :
           filter_default(parser, section)[i].v = NONE

\* C30: when every key of its own of BACKUP has the null marker, BACKUP is
\* not in the typed view and return_all("BACKUP") raises KeyError, so that
\* a run with a configured repopath ends with the KeyError and without a
\* dispatch; when every key of PRUNE has the null marker and prune is
\* enabled, the run ends with the KeyError after the dispatch of create;
\* a section whose values are all the boolean false is in the typed view
\* and return_all gives the empty sequence for it.
C30_AllNullSection ==
    LET \* the section is in the typed view and all its values are the
        \* boolean false
        all_false(section) ==
            /\ DictHas(config, section)
            /\ \A i \in 1..Len(DictGet(config, section)) :
                   DictGet(config, section)[i].v = Bool(FALSE)
    IN
    config # <<>> =>
        /\ all_null("BACKUP") =>
               /\ ~DictHas(config, "BACKUP")
               /\ ~return_all(config, "BACKUP").ok
               /\ dispatched = <<>>
               /\ pc # "prune"
               /\ (pc = "exit" /\ stderr = <<>>) => exit_status = "KeyError"
        /\ all_null("PRUNE") =>
               /\ ~DictHas(config, "PRUNE")
               /\ ~return_all(config, "PRUNE").ok
               /\ Len(dispatched) <= 1
               /\ (/\ pc = "exit" /\ dispatched # <<>>
                   /\ truthy(get_key(config, DEFAULT, txt_prune))) =>
                      exit_status = "KeyError"
        /\ \A section \in {"BACKUP", "PRUNE"} :
               all_false(section) =>
                   return_all(config, section) = [ok |-> TRUE, args |-> <<>>]
        /\ (pc = "exit" /\ all_false("BACKUP") /\ exit_status = "0") =>
               /\ dispatched # <<>>
               /\ Len(dispatched[1]) >= 2

\* a run with a configured repopath whose BACKUP keys all have the null
\* marker has ended with the KeyError, before a dispatch
C30_Witness ==
    /\ pc = "exit"
    /\ exit_status = "KeyError"
    /\ all_null("BACKUP")
    /\ truthy(get_key(config, DEFAULT, txt_repopath))
    /\ dispatched = <<>>

\* C28: RawConfig.read takes no lock.  A run truncates config.ini and then
\* writes it whatever the other run or the user has done to the file since
\* the run loaded it, and what it writes is what it reconciled from the
\* file as it was when it loaded it: stale content, or the defaults when it
\* loaded the file while the other run had truncated it.
C28_UnlockedReadWrite ==
    [][ \A p \in Procs :
          /\ runs[p].at \in {"open", "write"} =>
                 runs[p].parser = read_reconcile(runs[p].reader)
          /\ (runs[p].at = "open" /\ runs'[p].at = "write") =>
                 config_ini' = File(<<>>)
          /\ (runs[p].at = "write" /\ runs'[p].at = "exit") =>
                 LET written == write_values(runs[p].parser).lines
                 IN  /\ Len(config_ini'.lines) >= Len(written)
                     /\ SubSeq(config_ini'.lines, 1, Len(written)) = written
      ]_vars

\* the user has not touched the file, no run is in RawConfig.read, and the
\* repopath that was in the file is lost: the file is the file of the
\* defaults
C28_Witness ==
    /\ edits = 0
    /\ \A p \in Procs : runs[p].at \in {"idle", "exit"}
    /\ config_ini = new_config
    /\ own_value(parser_read(config_ini).parser, DEFAULT, txt_repopath) = NONE

====
